---- MODULE Spec2Model ----
(***************************************************************************)
(* OpenHealth shared backend: the AI request component                     *)
(* (ai-services/claude_service.py), the chat orchestration endpoint        *)
(* (api/v1/router.py) and the request-scoped database session              *)
(* (database/dependencies.py).                                             *)
(*                                                                         *)
(* Texts are sequences of space-separated tokens.  Python values whose     *)
(* type the code does not fix (JSON values, dictionary entries) are tagged *)
(* records, so that truthiness and .get() behave as in Python.             *)
(***************************************************************************)
EXTENDS Integers, Sequences, FiniteSets, TLC

(***************************************************************************)
(* Python values                                                           *)
(***************************************************************************)
None == [t |-> "none", s |-> "", n |-> 0]
JStr(x) == [t |-> "str", s |-> x, n |-> 0]
JInt(k) == [t |-> "int", s |-> "", n |-> k]
JBool(b) == [t |-> "bool", s |-> "", n |-> IF b THEN 1 ELSE 0]
JTrue == JBool(TRUE)
JFalse == JBool(FALSE)

\* bool(v) as Python computes it for None, str, int and bool
Truthy(v) ==
    CASE v.t = "none" -> FALSE
      [] v.t = "str" -> v.s # ""
      [] OTHER -> v.n # 0

\* the empty dict {}
EmptyDict == << >>

\* d.get(k, default)
Get(d, k, default) == IF k \in DOMAIN d THEN d[k] ELSE default

\* a dict as a Python value: its entries, and its length for bool()
JDict(d) == [t |-> "dict", s |-> "", n |-> Cardinality(DOMAIN d), d |-> d]
JEmptyDict == JDict(EmptyDict)

(***************************************************************************)
(* Texts                                                                   *)
(***************************************************************************)
\* str.lower() of one token
LowerTok(tok) ==
    CASE tok = "Schedule" -> "schedule"
      [] tok = "Acme" -> "acme"
      [] tok = "ACME" -> "acme"
      [] OTHER -> tok

\* str.lower() of a text
Lower(text) == [i \in DOMAIN text |-> LowerTok(text[i])]

\* the needles (keywords, lower-cased company names) that occur as substrings
\* of one lower-cased token
SubstringsOf(tok) ==
    CASE tok = "schedule" -> {"schedule"}
      [] tok = "rescheduled" -> {"schedule"}
      [] tok = "call" -> {"call"}
      [] tok = "market" -> {"market"}
      [] tok = "marketing" -> {"market"}
      [] tok = "startup" -> {"startup"}
      [] tok = "acme" -> {"acme"}
      [] OTHER -> {}

\* needle in text (Python substring test; needles hold no space)
Contains(text, needle) == \E i \in DOMAIN text : needle \in SubstringsOf(text[i])

\* str.find(tok): 0-based index of the first occurrence, -1 when absent
Find(text, tok) ==
    IF \E i \in DOMAIN text : text[i] = tok
    THEN (CHOOSE i \in DOMAIN text :
            text[i] = tok /\ \A j \in DOMAIN text : text[j] = tok => i <= j) - 1
    ELSE -1

\* str.rfind(tok): 0-based index of the last occurrence, -1 when absent
RFind(text, tok) ==
    IF \E i \in DOMAIN text : text[i] = tok
    THEN (CHOOSE i \in DOMAIN text :
            text[i] = tok /\ \A j \in DOMAIN text : text[j] = tok => j <= i) - 1
    ELSE -1

\* text[a:b] for 0 <= a < b <= len(text)
Slice(text, a, b) == SubSeq(text, a + 1, b)

(***************************************************************************)
(* JSON objects in a model reply.  A field token stands for one            *)
(* "key": value member; the commas are not written.                        *)
(***************************************************************************)
FieldTokens ==
    { "requested:true", "requested:false", "requested:'false'",
      "urgency:'high'", "duration:45",
      "name:'MedAI'", "stage:'mvp'", "score:85", "score:150",
      "concerns:['regulatory']" }

FieldKey(tok) ==
    CASE tok \in {"requested:true", "requested:false", "requested:'false'"} -> "requested"
      [] tok = "urgency:'high'" -> "urgency"
      [] tok = "duration:45" -> "duration"
      [] tok = "name:'MedAI'" -> "name"
      [] tok = "stage:'mvp'" -> "stage"
      [] tok \in {"score:85", "score:150"} -> "score"
      [] tok = "concerns:['regulatory']" -> "concerns"

FieldValue(tok) ==
    CASE tok = "requested:true" -> JTrue
      [] tok = "requested:false" -> JFalse
      [] tok = "requested:'false'" -> JStr("false")
      [] tok = "urgency:'high'" -> "high"
      [] tok = "duration:45" -> 45
      [] tok = "name:'MedAI'" -> "MedAI"
      [] tok = "stage:'mvp'" -> "mvp"
      [] tok = "score:85" -> JInt(85)
      [] tok = "score:150" -> JInt(150)
      [] tok = "concerns:['regulatory']" -> <<"regulatory">>

\* json.loads(span): ok = FALSE stands for json.JSONDecodeError.  A span parses
\* when it is one object: "{", members, "}".  A repeated key keeps its last value.
JsonLoads(span) ==
    IF /\ Len(span) >= 2
       /\ span[1] = "{"
       /\ span[Len(span)] = "}"
       /\ \A i \in 2..(Len(span) - 1) : span[i] \in FieldTokens
    THEN LET keys == {FieldKey(span[i]) : i \in 2..(Len(span) - 1)}
             last(k) == CHOOSE i \in 2..(Len(span) - 1) :
                           /\ FieldKey(span[i]) = k
                           /\ \A j \in 2..(Len(span) - 1) : FieldKey(span[j]) = k => j <= i
         IN [ok |-> TRUE, obj |-> [k \in keys |-> FieldValue(span[last(k)])]]
    ELSE [ok |-> FALSE, obj |-> EmptyDict]

(***************************************************************************)
(* ClaudeService (ai-services/claude_service.py)                           *)
(***************************************************************************)
\* The reply of self.client.messages.create as the service reads it:
\*   call_raise  the API call raises (transport error, timeout, API error)
\*   read_raise  response.content[0].text raises (no content block, no text)
\*   text        response.content[0].text is the text
CallRaise == [kind |-> "call_raise", text |-> << >>]
ReadRaise == [kind |-> "read_raise", text |-> << >>]
Reply(text) == [kind |-> "text", text |-> text]

\* what a call returns to its caller: a value, or an exception
Returned(v) == [raised |-> FALSE, value |-> v]
Raised(e) == [raised |-> TRUE, value |-> e]

FallbackText ==
    << "I apologize, but I'm experiencing some technical difficulties right now." >>

_get_fallback_response == FallbackText

\* user_context.get('metadata', {}).get('background', ...) raises AttributeError
\* when the metadata entry is not a dict
_build_system_prompt_raises(user_context) ==
    /\ user_context # None
    /\ "metadata" \in DOMAIN user_context
    /\ user_context.metadata.t # "dict"

meeting_keywords == {"meeting", "schedule", "call", "discuss", "available"}
venture_keywords == {"company", "startup", "business", "product", "market"}

\* variant: the keywords are matched against the reply as written, not lower-cased
_extract_structured_data_case_sensitive(response_text, user_context) ==
    LET text_lower == response_text
        d0 == [intent |-> "general_chat", entities |-> << >>,
               meeting_request |-> FALSE, venture_info |-> EmptyDict,
               next_actions |-> << >>]
        d1 == IF \E k \in {"meeting", "schedule", "call", "discuss", "available"} :
                    Contains(text_lower, k)
              THEN [d0 EXCEPT !.meeting_request = TRUE, !.intent = "meeting_scheduling"]
              ELSE d0
        d2 == IF \E k \in {"company", "startup", "business", "product", "market"} :
                    Contains(text_lower, k)
              THEN [d1 EXCEPT !.intent = "venture_discussion"]
              ELSE d1
        company == IF user_context = None THEN None
                   ELSE Get(user_context, "company", None)
    IN IF ~Truthy(company) THEN d2
       ELSE IF company.t # "str" THEN d2
       ELSE IF Contains(text_lower, LowerTok(company.s))
            THEN [d2 EXCEPT !.entities =
                      Append(@, [type |-> "company", value |-> company.s])]
            ELSE d2

_extract_structured_data(response_text, user_context) ==
    LET text_lower == Lower(response_text)
        d0 == [intent |-> "general_chat", entities |-> << >>,
               meeting_request |-> FALSE, venture_info |-> EmptyDict,
               next_actions |-> << >>]
        d1 == IF \E k \in meeting_keywords : Contains(text_lower, k)
              THEN [d0 EXCEPT !.meeting_request = TRUE, !.intent = "meeting_scheduling"]
              ELSE d0
        d2 == IF \E k \in venture_keywords : Contains(text_lower, k)
              THEN [d1 EXCEPT !.intent = "venture_discussion"]
              ELSE d1
        company == IF user_context = None THEN None
                   ELSE Get(user_context, "company", None)
    IN IF ~Truthy(company) THEN d2
       ELSE IF company.t # "str" THEN d2  \* .lower() raises; the except logs it
       ELSE IF Contains(text_lower, LowerTok(company.s))
            THEN [d2 EXCEPT !.entities =
                      Append(@, [type |-> "company", value |-> company.s])]
            ELSE d2

\* variant: no except clause, the exception reaches the caller
generate_response_propagates(o, user_context) ==
    IF _build_system_prompt_raises(user_context) THEN Raised("prompt")
    ELSE IF o.kind # "text" THEN Raised(o.kind)
    ELSE Returned([response |-> o.text,
                   extracted |-> _extract_structured_data(o.text, user_context)])

\* o is what the external model does in this call
generate_response(o, user_context) ==
    IF _build_system_prompt_raises(user_context) \/ o.kind # "text"
    THEN Returned([response |-> _get_fallback_response, extracted |-> EmptyDict])
    ELSE Returned([response |-> o.text,
                   extracted |-> _extract_structured_data(o.text, user_context)])

\* the span response[json_start:json_end] when the code finds one, parsed
ExtractJson(response) ==
    LET json_start == Find(response, "{")
        json_end == RFind(response, "}") + 1
    IN IF json_start >= 0 /\ json_end > json_start
       THEN JsonLoads(Slice(response, json_start, json_end))
       ELSE [ok |-> FALSE, obj |-> EmptyDict]

DefaultVentureAnalysis ==
    [name |-> "Healthcare Venture", description |-> "Analysis pending",
     stage |-> "idea", market_size |-> "medium", funding_status |-> "unknown",
     team_size |-> None, location |-> "", score |-> JInt(50),
     score_breakdown |-> EmptyDict, key_strengths |-> << >>,
     concerns |-> <<"Incomplete information">>,
     next_steps |-> <<"Continue conversation">>]

\* VentureAnalysis(name=analysis_data.get('name', 'Unknown Venture'), ...)
VentureAnalysisFrom(analysis_data) ==
    [name |-> Get(analysis_data, "name", "Unknown Venture"),
     description |-> Get(analysis_data, "description", ""),
     stage |-> Get(analysis_data, "stage", "idea"),
     market_size |-> Get(analysis_data, "market_size", "medium"),
     funding_status |-> Get(analysis_data, "funding_status", "unknown"),
     team_size |-> Get(analysis_data, "team_size", None),
     location |-> Get(analysis_data, "location", ""),
     score |-> Get(analysis_data, "score", JInt(50)),
     score_breakdown |-> Get(analysis_data, "score_breakdown", EmptyDict),
     key_strengths |-> Get(analysis_data, "key_strengths", << >>),
     concerns |-> Get(analysis_data, "concerns", << >>),
     next_steps |-> Get(analysis_data, "next_steps", << >>)]

\* variant: no try/except around the parse, json.JSONDecodeError propagates
analyze_venture_propagates(o, user_context) ==
    LET r == generate_response(o, user_context)
        json_start == Find(r.value.response, "{")
        json_end == RFind(r.value.response, "}") + 1
        p == ExtractJson(r.value.response)
    IN IF user_context = None THEN Raised("AttributeError")
       ELSE IF json_start >= 0 /\ json_end > json_start
       THEN IF p.ok THEN Returned(VentureAnalysisFrom(p.obj))
            ELSE Raised("JSONDecodeError")
       ELSE Returned(DefaultVentureAnalysis)

\* user_context is a dict (the f-string of the analysis prompt calls
\* user_context.get before the try block: None raises AttributeError)
analyze_venture(o, user_context) ==
    LET r == generate_response(o, user_context)
        p == ExtractJson(r.value.response)
    IN IF user_context = None THEN Raised("AttributeError")
       ELSE IF r.raised \/ ~p.ok THEN Returned(DefaultVentureAnalysis)
       ELSE Returned(VentureAnalysisFrom(p.obj))

\* variant: the default result asks for a meeting
DefaultMeetingRequest_requested ==
    [requested |-> JTrue, urgency |-> "low", preferred_times |-> << >>,
     meeting_type |-> "discovery", duration |-> 30, agenda_items |-> << >>]

DefaultMeetingRequest ==
    [requested |-> JFalse, urgency |-> "low", preferred_times |-> << >>,
     meeting_type |-> "discovery", duration |-> 30, agenda_items |-> << >>]

\* MeetingRequest(requested=meeting_data.get('requested', False), ...)
MeetingRequestFrom(meeting_data) ==
    [requested |-> Get(meeting_data, "requested", JFalse),
     urgency |-> Get(meeting_data, "urgency", "medium"),
     preferred_times |-> Get(meeting_data, "preferred_times", << >>),
     meeting_type |-> Get(meeting_data, "meeting_type", "discovery"),
     duration |-> Get(meeting_data, "duration", 30),
     agenda_items |-> Get(meeting_data, "agenda_items", << >>)]

\* variant: a reply without a parseable span is handled as the empty object
detect_meeting_request_field_defaults(o) ==
    LET r == generate_response(o, None)
        p == ExtractJson(r.value.response)
    IN Returned(MeetingRequestFrom(p.obj))

\* generate_response is called without user_context (None)
detect_meeting_request(o) ==
    LET r == generate_response(o, None)
        p == ExtractJson(r.value.response)
    IN IF r.raised \/ ~p.ok THEN Returned(DefaultMeetingRequest)
       ELSE Returned(MeetingRequestFrom(p.obj))

(***************************************************************************)
(* State                                                                   *)
(***************************************************************************)
VARIABLES
    users,          \* table users: rows in insertion order
    conversations,  \* table conversations (committed rows)
    messages,       \* table messages (committed rows, in creation order)
    ventures,       \* table ventures (committed rows)
    meetings,       \* table meetings (committed rows)
    nextId,         \* the next fresh primary key (uuid.uuid4())
    served,         \* number of chat or upload requests received so far
    rq,             \* rq[r]: the position and the locals of request r
    call,           \* a direct call of a function or an HTTP request: its arguments
    ret,            \* ... and what it returned
    admin_users,    \* table admin_users
    documents,      \* table documents (committed rows)
    last_active,    \* columns users.last_active / admin_users.last_login, by id
    tokens,         \* the signed tokens the server has issued so far
    settings        \* the Settings object (config.py), fixed at startup

db == <<users, conversations, messages, ventures, meetings>>
\* the state the chat endpoint and the ClaudeService methods do not touch
apiState == <<admin_users, documents, last_active, tokens, settings>>
vars == <<users, conversations, messages, ventures, meetings, nextId, served, rq, call, ret,
          admin_users, documents, last_active, tokens, settings>>

MaxRequests == 2

Reqs == {"r1", "r2"}
\* the requests of a run in which one request is handled at a time
SeqReqs == {"r1"}

HTTPException(status_code, detail) == [t |-> "HTTPException", s |-> detail, n |-> status_code]
DBError(op) == [t |-> "DBError", s |-> op, n |-> 0]
ModelError(kind) == [t |-> "ModelError", s |-> kind, n |-> 0]


EmptyTx == [conversations |-> << >>, messages |-> << >>, ventures |-> << >>,
            meetings |-> << >>]

NoResult == [status |-> 0, body |-> None]

IdleReq ==
    [pc |-> "idle", caller |-> "", cid |-> None, message |-> << >>,
     conversation |-> None, formatted_messages |-> << >>, sent |-> << >>,
     ai_response |-> << >>, extracted_data |-> EmptyDict,
     user_message |-> None, ai_message |-> None, meeting_request |-> None,
     venture_analysis |-> None, venture_data |-> None, meeting_data |-> None,
     exc |-> None, venture_exc |-> None, model_calls |-> << >>,
     tx |-> EmptyTx, snap |-> EmptyTx, result |-> NoResult,
     session |-> << >>, steps |-> << >>]

InboundMessages == { <<"hello">> }

\* what the external model does in the three calls of one chat request
ChatReplies ==
    { CallRaise, ReadRaise, Reply(<<"hello">>), Reply(<<"Schedule">>),
      Reply(<<"marketing">>) }
DetectReplies ==
    { CallRaise, Reply(<<"hello">>), Reply(<<"{", "requested:true", "}">>) }
AnalyzeReplies ==
    { CallRaise, Reply(<<"{", "name:'MedAI'", "score:85", "}">>),
      Reply(<<"{", "score:150", "}">>) }

(***************************************************************************)
(* Persistence helpers the endpoint calls (api/v1/endpoints/conversations, *)
(* messages, ventures, meetings)                                           *)
(***************************************************************************)
Rows(table, P(_)) == SelectSeq(table, P)

\* conversations.get_conversation: the conversation with this id owned by this
\* user, else None
get_conversation(table, conversation_id, user_id) ==
    LET hit(c) == c.id = conversation_id /\ c.user_id = user_id
    IN IF Rows(table, hit) # << >> THEN Head(Rows(table, hit)) ELSE None

\* conversations.create_conversation
create_conversation(id, user_id, title) ==
    [id |-> id, user_id |-> user_id, title |-> title, status |-> "active",
     priority |-> 0]

\* messages.get_conversation_messages: the conversation's messages, oldest first
get_conversation_messages(table, conversation_id) ==
    LET hit(m) == m.conversation_id = conversation_id
    IN Rows(table, hit)

\* messages.create_message
create_message(id, conversation_id, role, content, metadata) ==
    [id |-> id, conversation_id |-> conversation_id, role |-> role,
     content |-> content, metadata |-> metadata]

\* ventures.update_venture_from_analysis: the row to write, the conversation's
\* venture updated when it has one, else a new row
update_venture_from_analysis(table, id, user_id, conversation_id, analysis) ==
    LET hit(v) == v.conversation_id = conversation_id
        old == Rows(table, hit)
    IN [id |-> IF old # << >> THEN Head(old).id ELSE id,
        user_id |-> user_id, conversation_id |-> conversation_id,
        name |-> analysis.name, description |-> analysis.description,
        stage |-> analysis.stage, market_size |-> analysis.market_size,
        funding_status |-> analysis.funding_status,
        team_size |-> analysis.team_size, location |-> analysis.location,
        score |-> analysis.score, score_breakdown |-> analysis.score_breakdown,
        status |-> IF old # << >> THEN Head(old).status ELSE "screening"]

\* meetings.create_meeting_request
create_meeting_request(id, user_id, conversation_id, meeting_request) ==
    [id |-> id, user_id |-> user_id, conversation_id |-> conversation_id,
     venture_id |-> None, title |-> "Meeting request",
     duration_minutes |-> meeting_request.duration,
     meeting_type |-> meeting_request.meeting_type, status |-> "scheduled"]

\* a table after a session's venture writes: an existing id is replaced in place
ApplyVentures(table, writes) ==
    LET ids(t) == {t[i].id : i \in DOMAIN t}
        lastWrite(id) == writes[CHOOSE i \in DOMAIN writes :
                            writes[i].id = id /\ \A j \in DOMAIN writes :
                                writes[j].id = id => j <= i]
        isNew(w) == w.id \notin ids(table)
    IN [i \in DOMAIN table |->
            IF table[i].id \in ids(writes) THEN lastWrite(table[i].id) ELSE table[i]]
       \o SelectSeq(writes, isNew)

(***************************************************************************)
(* Tokens (auth/dependencies.py, auth/jwt_handler.py)                      *)
(***************************************************************************)
\* A token as the verifiers see it: the claims "sub" and "type", and whether
\* the signature is the server's.  The "exp" claim is compared with the clock
\* when the token is presented (the input `expired`).
Token(sub, type, signed) == [sub |-> sub, type |-> type, signed |-> signed]

\* auth/dependencies.py create_access_token: the data, "exp" added, signed
create_access_token(data) == Token(data.sub, data.type, TRUE)

\* auth/dependencies.py create_refresh_token: the data, then
\* to_encode.update({"exp": expire, "type": "refresh"}), signed
create_refresh_token(data) == Token(data.sub, "refresh", TRUE)

\* tokens not signed by the server, with any claims
ForgedTokens ==
    { Token(s, t, FALSE) : s \in {"u1", "a1"}, t \in {"user", "admin"} }

\* what a client can present as bearer token: a token it was issued, or a forgery
Presentable == tokens \cup ForgedTokens

\* auth/dependencies.py verify_token: jwt.decode checks signature and expiry;
\* on JWTError the payload is None
verify_token(token, expired) ==
    IF token.signed /\ ~expired THEN token ELSE None

\* auth/dependencies.py verify_refresh_token
verify_refresh_token(token, expired) ==
    IF token.signed /\ ~expired /\ token.type = "refresh" THEN token ELSE None

AuthenticationError(detail) == HTTPException(401, detail)

UserIds == {users[i].id : i \in DOMAIN users}
UserRow(id) == users[CHOOSE i \in DOMAIN users : users[i].id = id]

AdminIds == {admin_users[i].id : i \in DOMAIN admin_users}
AdminRow(id) == admin_users[CHOOSE i \in DOMAIN admin_users : admin_users[i].id = id]

\* what the database does to get_current_user and get_current_admin_user:
\* nothing, db_session.execute(stmt) raises, or db_session.commit() raises
DependencyFaults == {"none", "select", "commit"}

\* variant: the type claim is not compared
get_current_user_any_type(token, expired, fault) ==
    LET payload == verify_token(token, expired) IN
    IF payload = None THEN Raised(AuthenticationError("Invalid token"))
    ELSE IF fault = "select"
    THEN Raised(AuthenticationError("Could not validate credentials"))
    ELSE IF payload.sub \notin UserIds THEN Raised(AuthenticationError("User not found"))
    ELSE IF fault = "commit"
    THEN Raised(AuthenticationError("Could not validate credentials"))
    ELSE Returned(UserRow(payload.sub))

\* get_current_user: the user, or the 401 raised.  fault: the SELECT raises,
\* or, once the user is found, the commit of last_active raises (except
\* Exception: AuthenticationError())
get_current_user(token, expired, fault) ==
    LET payload == verify_token(token, expired) IN
    IF payload = None THEN Raised(AuthenticationError("Invalid token"))
    ELSE IF payload.type # "user"
    THEN Raised(AuthenticationError("Invalid token type for user access"))
    ELSE IF fault = "select"
    THEN Raised(AuthenticationError("Could not validate credentials"))
    ELSE IF payload.sub \notin UserIds THEN Raised(AuthenticationError("User not found"))
    ELSE IF fault = "commit"
    THEN Raised(AuthenticationError("Could not validate credentials"))
    ELSE Returned(UserRow(payload.sub))

\* get_current_admin_user: the admin, or the 401 raised
get_current_admin_user(token, expired, fault) ==
    LET payload == verify_token(token, expired) IN
    IF payload = None THEN Raised(AuthenticationError("Invalid token"))
    ELSE IF payload.type # "admin"
    THEN Raised(AuthenticationError("Invalid token type for admin access"))
    ELSE IF fault = "select"
    THEN Raised(AuthenticationError("Could not validate credentials"))
    ELSE IF payload.sub \notin AdminIds
    THEN Raised(AuthenticationError("Admin user not found"))
    ELSE IF fault = "commit"
    THEN Raised(AuthenticationError("Could not validate credentials"))
    ELSE Returned(AdminRow(payload.sub))

\* the timestamp columns after a dependency returned principal res.value:
\* user.last_active / admin_user.last_login = utcnow(), committed
Touch(res) ==
    IF res.raised \/ res.value = None THEN last_active
    ELSE [last_active EXCEPT ![res.value.id] = "now"]

(***************************************************************************)
(* get_db_session (database/dependencies.py): the calls on the session     *)
(***************************************************************************)
\* one call of a method of the request's session: which, by whom, and whether
\* it completed (FALSE: it raised)
SessionOp(op, by, ok) == [op |-> op, by |-> by, ok |-> ok]

\* variant: a failed commit is not rolled back
get_db_session_no_rollback_after_commit(body_raised, commit_fault) ==
    IF body_raised
    THEN << SessionOp("rollback", "get_db_session", TRUE),
            SessionOp("close", "get_db_session", TRUE) >>
    ELSE IF commit_fault
    THEN << SessionOp("commit", "get_db_session", FALSE),
            SessionOp("close", "get_db_session", TRUE) >>
    ELSE << SessionOp("commit", "get_db_session", TRUE),
            SessionOp("close", "get_db_session", TRUE) >>

\* main.py global_exception_handler: the response for an exception no handler
\* caught, with the exception's text and type name when settings.DEBUG
global_exception_handler(exc) ==
    IF settings.DEBUG
    THEN [status |-> 500, body |-> [detail |-> exc.s, type |-> exc.t]]
    ELSE [status |-> 500, body |-> [detail |-> "Internal server error"]]

\* get_db_session after the yield: the calls it makes on the session.
\* body_raised: an exception was thrown in at the yield; commit_fault:
\* session.commit() raises.  In both of these cases the exception is re-raised.
get_db_session(body_raised, commit_fault) ==
    IF body_raised
    THEN << SessionOp("rollback", "get_db_session", TRUE),
            SessionOp("close", "get_db_session", TRUE) >>
    ELSE IF commit_fault
    THEN << SessionOp("commit", "get_db_session", FALSE),
            SessionOp("rollback", "get_db_session", TRUE),
            SessionOp("close", "get_db_session", TRUE) >>
    ELSE << SessionOp("commit", "get_db_session", TRUE),
            SessionOp("close", "get_db_session", TRUE) >>

(***************************************************************************)
(* chat_endpoint (api/v1/router.py), one action per awaited step           *)
(***************************************************************************)
\* the conversation_id query parameters a client may send: none, the id of a
\* stored conversation, or an id that names no conversation
ConversationIdInputs ==
    {None, JInt(0)} \cup {JInt(conversations[i].id) : i \in DOMAIN conversations}

\* user_context as chat_endpoint builds it from current_user; the metadata
\* entry is current_user.metadata or {}: the stored dict unless it is empty
UserContextOf(u) ==
    [name |-> JStr(u.name), email |-> JStr(u.email), company |-> u.company,
     role |-> u.role,
     metadata |-> IF Truthy(JDict(u.metadata)) THEN JDict(u.metadata) ELSE JEmptyDict]

\* variant: the except clause returns the error as an ordinary response
chat_except_returns(e) ==
    [status |-> 200, body |-> [detail |-> "Error processing chat message", cause |-> e]]

\* except Exception as e: raise HTTPException(500, f"Error processing ...: {e}")
chat_except(e) ==
    [status |-> 500, body |-> [detail |-> "Error processing chat message", cause |-> e]]

\* one call of the external model made for the request: by which method, and
\* whether the model answered
ModelCall(fn, o) == [fn |-> fn, answered |-> o.kind = "text"]

\* the request leaves the try block with exception e
HandlerRaise(rec, e) ==
    [rec EXCEPT !.pc = "raised", !.exc = e, !.result = chat_except(e)]

\* the request arrives: get_db_session opens the request's session, and
\* get_current_user resolves the caller with the bearer token of user u on that
\* same session, sets last_active and commits it.  fault: the SELECT or that
\* commit raises, and the request ends with the 401 before the handler runs;
\* the commit that raised is a call the session has seen.
Arrive(r) ==
    /\ rq[r].pc \in {"idle", "done"}
    /\ served < MaxRequests
    /\ \E u \in UserIds, c \in ConversationIdInputs, m \in InboundMessages,
          fault \in DependencyFaults :
         LET res == get_current_user(Token(u, "user", TRUE), FALSE, fault)
             rec == [IdleReq EXCEPT !.caller = u, !.cid = c, !.message = m,
                                    !.snap = [conversations |-> conversations,
                                              messages |-> messages,
                                              ventures |-> ventures,
                                              meetings |-> meetings,
                                              last_active |-> last_active]]
         IN /\ rq' = [rq EXCEPT ![r] =
                        IF res.raised
                        THEN [rec EXCEPT !.pc = "raised", !.exc = res.value,
                                         !.session =
                                             IF fault = "commit"
                                             THEN <<SessionOp("commit", "get_current_user", FALSE)>>
                                             ELSE << >>,
                                         !.result = [status |-> res.value.n,
                                                     body |-> [detail |-> res.value.s,
                                                               cause |-> res.value]]]
                        ELSE [rec EXCEPT !.pc = "resolve",
                                         !.session = <<SessionOp("commit", "get_current_user", TRUE)>>]]
            /\ last_active' = Touch(res)
    /\ served' = served + 1
    /\ UNCHANGED <<db, nextId, call, ret, admin_users, documents, tokens, settings>>

\* variant: the lookup is by id alone, not scoped to the caller
ConversationFor_unscoped(rec, table) ==
    LET hit(c) == c.id = rec.cid.n
    IN IF Rows(table, hit) # << >> THEN Head(Rows(table, hit)) ELSE None

\* conversations.get_conversation(conversation_id, current_user.id, db_session)
ConversationFor(rec, table) == get_conversation(table, rec.cid.n, rec.caller)

\* variant: the conversation_id parameter is not consulted
HasConversationId_never(rec) == FALSE

\* if conversation_id: (a uuid.UUID is truthy, None is not)
HasConversationId(rec) == rec.cid # None

ResolveConversation(r) ==
    LET rec == rq[r] IN
    /\ rec.pc = "resolve"
    /\ \E fault \in BOOLEAN :
         IF fault
         THEN /\ rq' = [rq EXCEPT ![r] = HandlerRaise(rec, DBError("conversation"))]
              /\ UNCHANGED nextId
         ELSE IF HasConversationId(rec)
         THEN LET conversation == ConversationFor(rec, conversations) IN
              /\ rq' = [rq EXCEPT ![r] =
                          IF conversation = None
                          THEN HandlerRaise(rec, HTTPException(404, "Conversation not found"))
                          ELSE [rec EXCEPT !.pc = "history",
                                           !.conversation = conversation]]
              /\ UNCHANGED nextId
         ELSE LET conversation ==
                      create_conversation(nextId, rec.caller, "Healthcare Discussion") IN
              /\ rq' = [rq EXCEPT ![r] =
                          [rec EXCEPT !.pc = "history",
                                      !.conversation = conversation,
                                      !.tx.conversations = Append(@, conversation)]]
              /\ nextId' = nextId + 1
    /\ UNCHANGED <<db, served, call, ret, apiState>>

LoadHistory(r) ==
    LET rec == rq[r] IN
    /\ rec.pc = "history"
    /\ \E fault \in BOOLEAN :
         IF fault
         THEN rq' = [rq EXCEPT ![r] = HandlerRaise(rec, DBError("get_conversation_messages"))]
         ELSE LET conversation_messages ==
                      get_conversation_messages(messages, rec.conversation.id)
                  formatted ==
                      [i \in DOMAIN conversation_messages |->
                          [role |-> conversation_messages[i].role,
                           content |-> conversation_messages[i].content]]
              IN rq' = [rq EXCEPT ![r] =
                          [rec EXCEPT !.pc = "generate",
                                      !.formatted_messages =
                                          Append(formatted, [role |-> "user",
                                                             content |-> rec.message])]]
    /\ UNCHANGED <<db, nextId, served, call, ret, apiState>>

GenerateReply(r) ==
    LET rec == rq[r] IN
    /\ rec.pc = "generate"
    /\ \E o \in ChatReplies :
         LET res == generate_response(o, UserContextOf(UserRow(rec.caller))) IN
         rq' = [rq EXCEPT ![r] =
                  IF res.raised
                  THEN [HandlerRaise(rec, ModelError(res.value)) EXCEPT
                            !.sent = rec.formatted_messages,
                            !.model_calls = Append(@, ModelCall("generate_response", o))]
                  ELSE [rec EXCEPT !.pc = "save_user",
                                   !.sent = rec.formatted_messages,
                                   !.model_calls = Append(@, ModelCall("generate_response", o)),
                                   !.ai_response = res.value.response,
                                   !.extracted_data = res.value.extracted]]
    /\ UNCHANGED <<db, nextId, served, call, ret, apiState>>

SaveUserMessage(r) ==
    LET rec == rq[r] IN
    /\ rec.pc = "save_user"
    /\ \E fault \in BOOLEAN :
         IF fault
         THEN /\ rq' = [rq EXCEPT ![r] = HandlerRaise(rec, DBError("create_message user"))]
              /\ UNCHANGED nextId
         ELSE LET user_message ==
                      create_message(nextId, rec.conversation.id, "user",
                                     rec.message, EmptyDict)
              IN /\ rq' = [rq EXCEPT ![r] =
                             [rec EXCEPT !.pc = "save_ai",
                                         !.user_message = user_message,
                                         !.steps = Append(@, "create_message user"),
                                         !.tx.messages = Append(@, user_message)]]
                 /\ nextId' = nextId + 1
    /\ UNCHANGED <<db, served, call, ret, apiState>>

\* variant: the assistant message is written over the request's user message
AIMessageRow_overwrites_user_message(id, rec) ==
    create_message(rec.user_message.id, rec.conversation.id, "assistant",
                   rec.ai_response, rec.extracted_data)

\* variant: the assistant message is stored without the extraction map
AIMessageRow_no_metadata(id, rec) ==
    create_message(id, rec.conversation.id, "assistant", rec.ai_response, EmptyDict)

\* messages.create_message(conversation.id, "assistant", ai_response, extracted_data)
AIMessageRow(id, rec) ==
    create_message(id, rec.conversation.id, "assistant", rec.ai_response,
                   rec.extracted_data)

SaveAIMessage(r) ==
    LET rec == rq[r] IN
    /\ rec.pc = "save_ai"
    /\ \E fault \in BOOLEAN :
         IF fault
         THEN /\ rq' = [rq EXCEPT ![r] =
                          HandlerRaise(rec, DBError("create_message assistant"))]
              /\ UNCHANGED nextId
         ELSE LET ai_message == AIMessageRow(nextId, rec)
              IN /\ rq' = [rq EXCEPT ![r] =
                             [rec EXCEPT !.pc = "detect",
                                         !.ai_message = ai_message,
                                         !.steps = Append(@, "create_message assistant"),
                                         !.tx.messages = Append(@, ai_message)]]
                 /\ nextId' = nextId + 1
    /\ UNCHANGED <<db, served, call, ret, apiState>>

DetectMeeting(r) ==
    LET rec == rq[r] IN
    /\ rec.pc = "detect"
    /\ \E o \in DetectReplies :
         LET res == detect_meeting_request(o) IN
         rq' = [rq EXCEPT ![r] =
                  IF res.raised
                  THEN [HandlerRaise(rec, ModelError(res.value)) EXCEPT
                            !.model_calls = Append(@, ModelCall("detect_meeting_request", o))]
                  ELSE [rec EXCEPT !.pc = "venture",
                                   !.model_calls = Append(@, ModelCall("detect_meeting_request", o)),
                                   !.meeting_request = res.value]]
    /\ UNCHANGED <<db, nextId, served, call, ret, apiState>>

\* variant: every intent other than general_chat starts the venture analysis
ShouldProcessVenture_any_intent(extracted_data) ==
    Get(extracted_data, "intent", "general_chat") # "general_chat"

\* extracted_data.get('intent') == 'venture_discussion'
ShouldProcessVenture(extracted_data) ==
    Get(extracted_data, "intent", "") = "venture_discussion"

\* the test of the intent and the awaited call of analyze_venture
ProcessVenture(r) ==
    LET rec == rq[r] IN
    /\ rec.pc = "venture"
    /\ IF ShouldProcessVenture(rec.extracted_data)
       THEN \E o \in AnalyzeReplies :
              LET res == analyze_venture(o, UserContextOf(UserRow(rec.caller)))
              IN rq' = [rq EXCEPT ![r] =
                          IF res.raised
                          THEN \* except Exception: logged, the chat goes on
                               [rec EXCEPT !.pc = "meeting",
                                           !.model_calls = Append(@, ModelCall("analyze_venture", o)),
                                           !.steps = Append(@, "analyze_venture"),
                                           !.venture_exc = ModelError("analyze_venture")]
                          ELSE [rec EXCEPT !.pc = "venture_update",
                                           !.model_calls = Append(@, ModelCall("analyze_venture", o)),
                                           !.steps = Append(@, "analyze_venture"),
                                           !.venture_analysis = res.value]]
       ELSE rq' = [rq EXCEPT ![r] = [rec EXCEPT !.pc = "meeting"]]
    /\ UNCHANGED <<db, nextId, served, call, ret, apiState>>

\* the awaited call of ventures.update_venture_from_analysis, which reads the
\* ventures table when it runs
UpdateVenture(r) ==
    LET rec == rq[r] IN
    /\ rec.pc = "venture_update"
    /\ \E fault \in BOOLEAN :
         LET row == update_venture_from_analysis(
                        ventures, nextId, rec.caller, rec.conversation.id,
                        rec.venture_analysis)
         IN IF fault
            THEN \* except Exception: logged, the chat goes on
                 /\ rq' = [rq EXCEPT ![r] =
                             [rec EXCEPT !.pc = "meeting",
                                         !.venture_exc =
                                             DBError("update_venture_from_analysis")]]
                 /\ UNCHANGED nextId
            ELSE /\ rq' = [rq EXCEPT ![r] =
                             [rec EXCEPT !.pc = "meeting",
                                         !.steps = Append(@, "update_venture_from_analysis"),
                                         !.venture_data = row,
                                         !.tx.ventures = Append(@, row)]]
                 /\ nextId' = IF row.id = nextId THEN nextId + 1 ELSE nextId
    /\ UNCHANGED <<db, served, call, ret, apiState>>

\* variant: the requested flag is not tested
ShouldCreateMeeting_always(meeting_request) == TRUE

\* if meeting_request.requested:
ShouldCreateMeeting(meeting_request) == Truthy(meeting_request.requested)

\* the dict chat_endpoint returns
ChatResponse(rec, meeting_data) ==
    [status |-> 200,
     body |-> [response |-> rec.ai_response,
               conversation_id |-> rec.conversation.id,
               message_id |-> rec.ai_message.id,
               extracted_data |-> rec.extracted_data,
               venture_data |-> rec.venture_data,
               meeting_request |-> meeting_data]]

HandleMeeting(r) ==
    LET rec == rq[r] IN
    /\ rec.pc = "meeting"
    /\ IF ShouldCreateMeeting(rec.meeting_request)
       THEN \E fault \in BOOLEAN :
              IF fault
              THEN /\ rq' = [rq EXCEPT ![r] =
                               HandlerRaise(rec, DBError("create_meeting_request"))]
                   /\ UNCHANGED nextId
              ELSE LET meeting_data ==
                           create_meeting_request(nextId, rec.caller,
                                                  rec.conversation.id,
                                                  rec.meeting_request)
                   IN /\ rq' = [rq EXCEPT ![r] =
                                  [rec EXCEPT !.pc = "returned",
                                              !.meeting_data = meeting_data,
                                              !.steps = Append(@, "create_meeting_request"),
                                              !.tx.meetings = Append(@, meeting_data),
                                              !.result = ChatResponse(rec, meeting_data)]]
                      /\ nextId' = nextId + 1
       ELSE /\ rq' = [rq EXCEPT ![r] =
                        [rec EXCEPT !.pc = "returned",
                                    !.result = ChatResponse(rec, None)]]
            /\ UNCHANGED nextId
    /\ UNCHANGED <<db, served, call, ret, apiState>>

(***************************************************************************)
(* get_db_session (database/dependencies.py): what follows the yield       *)
(***************************************************************************)
\* the handler returned: session.commit(); if the commit raises, rollback
\* and re-raise; finally close.  The framework resumes get_db_session either
\* before it sends the handler's response or after (its releases differ, and
\* none is pinned): the re-raised exception is answered by
\* global_exception_handler, or the client already holds the handler's response
SessionCommit(r) ==
    LET rec == rq[r] IN
    /\ rec.pc = "returned"
    /\ \E fault \in BOOLEAN, response_sent \in BOOLEAN :
         IF fault
         THEN /\ rq' = [rq EXCEPT ![r] =
                          [rec EXCEPT !.pc = "done", !.tx = EmptyTx,
                                      !.exc = DBError("commit"),
                                      !.session = @ \o get_db_session(FALSE, TRUE),
                                      !.result =
                                          IF response_sent THEN rec.result
                                          ELSE global_exception_handler(DBError("commit"))]]
              /\ UNCHANGED db
         ELSE /\ rq' = [rq EXCEPT ![r] =
                          [rec EXCEPT !.pc = "done", !.tx = EmptyTx,
                                      !.session = @ \o get_db_session(FALSE, FALSE)]]
              /\ conversations' = conversations \o rec.tx.conversations
              /\ messages' = messages \o rec.tx.messages
              /\ ventures' = ApplyVentures(ventures, rec.tx.ventures)
              /\ meetings' = meetings \o rec.tx.meetings
              /\ UNCHANGED users
    /\ UNCHANGED <<nextId, served, call, ret, apiState>>

\* the handler raised: session.rollback(), re-raise, close
SessionRollback(r) ==
    LET rec == rq[r] IN
    /\ rec.pc = "raised"
    /\ rq' = [rq EXCEPT ![r] = [rec EXCEPT !.pc = "done", !.tx = EmptyTx,
                                           !.session = @ \o get_db_session(TRUE, FALSE)]]
    /\ UNCHANGED <<db, nextId, served, call, ret, apiState>>

(***************************************************************************)
(* Specification: chat requests handled one at a time                      *)
(***************************************************************************)
NoCall == [fn |-> "none"]

InitDb ==
    /\ users = << [id |-> "u1", email |-> "ann@acme.example", name |-> "Ann",
                   company |-> JStr("Acme"), role |-> JStr("founder"), phone |-> None,
                   metadata |-> [password_hash |-> "hash"]],
                  [id |-> "u2", email |-> "bob@example.org", name |-> "Bob",
                   company |-> None, role |-> None, phone |-> None,
                   metadata |-> [password_hash |-> "hash"]] >>
    /\ conversations = << create_conversation(1, "u1", "Healthcare Discussion"),
                          create_conversation(2, "u2", "Healthcare Discussion") >>
    /\ messages = << create_message(3, 1, "user", <<"hello">>, EmptyDict),
                     create_message(4, 2, "user", <<"startup">>, EmptyDict) >>
    /\ ventures = << >>
    /\ meetings = << >>
    /\ nextId = 5
    /\ admin_users = << [id |-> "a1", email |-> "root@openhealth.example", name |-> "Root",
                         role |-> "admin", permissions |-> <<"super_admin">>],
                        [id |-> "a2", email |-> "eve@openhealth.example", name |-> "Eve",
                         role |-> "analyst", permissions |-> <<"view_conversations">>] >>
    /\ documents = << >>
    /\ last_active = [id \in {"u1", "u2", "a1", "a2"} |-> "earlier"]

\* config.py: the defaults of class Settings
DefaultSettings ==
    [DEBUG |-> TRUE,
     ACCESS_TOKEN_EXPIRE_MINUTES |-> 30,
     MAX_FILE_SIZE_MB |-> 10,
     ALLOWED_FILE_TYPES |-> {"pdf", "doc", "docx", "txt", "png", "jpg", "jpeg"}]

\* no token issued yet, the default configuration
InitSite ==
    /\ tokens = {}
    /\ settings = DefaultSettings

Init ==
    /\ InitDb
    /\ InitSite
    /\ served = 0
    /\ rq = [r \in Reqs |-> IdleReq]
    /\ call = NoCall
    /\ ret = NoCall

Next ==
    \E r \in SeqReqs :
        \/ Arrive(r)
        \/ ResolveConversation(r)
        \/ LoadHistory(r)
        \/ GenerateReply(r)
        \/ SaveUserMessage(r)
        \/ SaveAIMessage(r)
        \/ DetectMeeting(r)
        \/ ProcessVenture(r)
        \/ UpdateVenture(r)
        \/ HandleMeeting(r)
        \/ SessionCommit(r)
        \/ SessionRollback(r)

Spec == Init /\ [][Next]_vars

(***************************************************************************)
(* Specification: two chat requests in flight at the same time, each in    *)
(* its own task and with its own session                                   *)
(***************************************************************************)
\* the request of slot r arrives; a slot carries one request, and the two
\* requests are by the same user for the same stored conversation
ConcurrentArrive(r) ==
    /\ rq[r].pc = "idle"
    /\ Arrive(r)
    /\ rq'[r].caller = users[1].id
    /\ rq'[r].cid = JInt(conversations[1].id)

NextConcurrent ==
    \E r \in Reqs :
        \/ ConcurrentArrive(r)
        \/ ResolveConversation(r)
        \/ LoadHistory(r)
        \/ GenerateReply(r)
        \/ SaveUserMessage(r)
        \/ SaveAIMessage(r)
        \/ DetectMeeting(r)
        \/ ProcessVenture(r)
        \/ UpdateVenture(r)
        \/ HandleMeeting(r)
        \/ SessionCommit(r)
        \/ SessionRollback(r)

SpecConcurrent == Init /\ [][NextConcurrent]_vars

(***************************************************************************)
(* check_admin_permissions (auth/dependencies.py)                          *)
(***************************************************************************)
\* Python: "x in list", set(list)
Elems(list) == {list[i] : i \in DOMAIN list}

\* variant: the super_admin entry gets no special treatment
check_admin_permissions_no_sentinel(permissions, required_permissions) ==
    IF permissions = << >> THEN FALSE
    ELSE Elems(required_permissions) \subseteq Elems(permissions)

\* check_admin_permissions(admin_user, required_permissions), by the admin's
\* permission list
check_admin_permissions(permissions, required_permissions) ==
    IF permissions = << >> THEN FALSE
    ELSE IF "super_admin" \in Elems(permissions) THEN TRUE
    ELSE Elems(required_permissions) \subseteq Elems(permissions)

(***************************************************************************)
(* Specification: direct calls of the ClaudeService methods and of         *)
(* check_admin_permissions                                                 *)
(***************************************************************************)
MaxTextLen == 3

ReplyTokens ==
    {"hello", "Schedule", "marketing", "{", "}",
     "name:'MedAI'", "score:85", "requested:true"}

Texts(n) == UNION {[1..k -> ReplyTokens] : k \in 1..n}

ModelOutcomes == {CallRaise, ReadRaise} \cup {Reply(t) : t \in Texts(MaxTextLen)}

\* user_context arguments: None, or a dict whose company and metadata entries
\* are any Python value
UserContexts ==
    {None} \cup
    { [name |-> JStr("Ann"), company |-> c, metadata |-> m] :
        c \in {None, JStr("Acme"), JInt(7)}, m \in {JEmptyDict, None} }

\* analyze_venture declares user_context: Dict
DictContexts == UserContexts \ {None}

MaxPermLen == 2

Permissions == {"super_admin", "view_conversations", "manage_users"}

\* permission lists (JSONB arrays): any order, repeats allowed, the empty list
PermLists == {<< >>} \cup UNION {[1..k -> Permissions] : k \in 1..MaxPermLen}

InitService ==
    /\ InitDb
    /\ InitSite
    /\ served = 0
    /\ rq = [r \in Reqs |-> IdleReq]
    /\ call \in
         { [fn |-> "generate_response", o |-> o, user_context |-> uc] :
             o \in ModelOutcomes, uc \in UserContexts }
         \cup { [fn |-> "analyze_venture", o |-> o, user_context |-> uc] :
                  o \in ModelOutcomes, uc \in DictContexts }
         \cup { [fn |-> "detect_meeting_request", o |-> o, user_context |-> None] :
                  o \in ModelOutcomes }
         \cup { [fn |-> "check_admin_permissions", permissions |-> ps,
                 required_permissions |-> rs] : ps \in PermLists, rs \in PermLists }
    /\ ret = NoCall

CallGenerateResponse ==
    /\ call.fn = "generate_response"
    /\ ret = NoCall
    /\ ret' = [fn |-> call.fn, res |-> generate_response(call.o, call.user_context)]
    /\ UNCHANGED <<db, nextId, served, rq, call, apiState>>

CallAnalyzeVenture ==
    /\ call.fn = "analyze_venture"
    /\ ret = NoCall
    /\ ret' = [fn |-> call.fn, res |-> analyze_venture(call.o, call.user_context)]
    /\ UNCHANGED <<db, nextId, served, rq, call, apiState>>

CallDetectMeetingRequest ==
    /\ call.fn = "detect_meeting_request"
    /\ ret = NoCall
    /\ ret' = [fn |-> call.fn, res |-> detect_meeting_request(call.o)]
    /\ UNCHANGED <<db, nextId, served, rq, call, apiState>>

CallCheckAdminPermissions ==
    /\ call.fn = "check_admin_permissions"
    /\ ret = NoCall
    /\ ret' = [fn |-> call.fn,
               res |-> check_admin_permissions(call.permissions,
                                               call.required_permissions)]
    /\ UNCHANGED <<db, nextId, served, rq, call, apiState>>

NextService ==
    \/ CallGenerateResponse
    \/ CallAnalyzeVenture
    \/ CallDetectMeetingRequest
    \/ CallCheckAdminPermissions

SpecService == InitService /\ [][NextService]_vars

(***************************************************************************)
(* AuthMiddleware (auth/middleware.py) and the routers' gates (router.py)  *)
(***************************************************************************)
\* a URL path is the sequence of its segments: /api/v1/chat is <<"api","v1","chat">>
PUBLIC_ROUTES ==
    { << >>, <<"health">>, <<"docs">>, <<"redoc">>, <<"openapi.json">>,
      <<"api", "v1", "auth", "login">>, <<"api", "v1", "auth", "register">>,
      <<"api", "v1", "auth", "refresh">>, <<"api", "v1", "chat", "webhook">> }

ADMIN_ROUTES ==
    { <<"api", "v1", "admin">>, <<"api", "v1", "ventures">>,
      <<"api", "v1", "analytics">>, <<"api", "v1", "knowledge-base">>,
      <<"api", "v1", "extraction-schemas">>, <<"api", "v1", "system-settings">>,
      <<"api", "v1", "audit-log">> }

\* str.startswith on the characters of one segment
StartsWith(s, p) == Len(s) >= Len(p) /\ SubSeq(s, 1, Len(p)) = p

\* path.startswith(prefix) on the path strings: the leading segments of the
\* prefix are equal to the path's, and its last segment starts the path's
\* segment at that place, character by character (/api/v1/adminx starts with
\* /api/v1/admin)
HasPrefix(path, prefix) ==
    LET n == Len(prefix) IN
    \/ n = 0
    \/ /\ Len(path) >= n
       /\ SubSeq(path, 1, n - 1) = SubSeq(prefix, 1, n - 1)
       /\ StartsWith(path[n], prefix[n])

\* re.match(r"^<dir>/.*", path): the path lies under the directory
MatchesUnder(path, dir) ==
    Len(path) > Len(dir) /\ SubSeq(path, 1, Len(dir)) = dir

\* path in PUBLIC_ROUTES, or re.match of ^/static/.* or ^/api/v1/chat/widget/.*
_is_public_route(path) ==
    \/ path \in PUBLIC_ROUTES
    \/ MatchesUnder(path, <<"static">>)
    \/ MatchesUnder(path, <<"api", "v1", "chat", "widget">>)

\* any(path.startswith(admin_path) for admin_path in ADMIN_ROUTES)
_is_admin_route(path) == \E admin_path \in ADMIN_ROUTES : HasPrefix(path, admin_path)

\* the Authorization header: absent, or "Bearer <token>"
NoAuthorization == [sub |-> "", type |-> "", signed |-> FALSE]

\* auth/jwt_handler.py verify_token(token): decode, then the type claim must be
\* "access"; the value is the payload or the HTTPException raised
jwt_verify_token(token, expired) ==
    IF ~token.signed \/ expired
    THEN Raised(HTTPException(401, "Could not validate credentials"))
    ELSE IF token.type # "access"
    THEN Raised(HTTPException(401, "Invalid token type"))
    ELSE Returned(token)

\* AuthMiddleware.dispatch: Returned("call_next") when the request is passed on,
\* else the HTTPException raised.  The tokens carry no "user_type" claim, so
\* payload.get("user_type", "user") is "user".
dispatch(path, authorization, expired) ==
    IF _is_public_route(path) THEN Returned("call_next")
    ELSE IF authorization = NoAuthorization
    THEN Raised(HTTPException(401, "Authentication required"))
    ELSE LET v == jwt_verify_token(authorization, expired) IN
         IF v.raised THEN v
         ELSE IF _is_admin_route(path)
         THEN Raised(HTTPException(403, "Admin access required"))
         ELSE Returned("call_next")

\* the routes of api_router: the handler, and the dependency that gates it
Routes ==
    { [path |-> <<"api", "v1", "chat">>, gate |-> "user", handler |-> "chat_endpoint"],
      [path |-> <<"api", "v1", "ventures">>, gate |-> "user", handler |-> "ventures.router"],
      [path |-> <<"api", "v1", "admin">>, gate |-> "admin", handler |-> "admin.router"],
      [path |-> <<"api", "v1", "analytics">>, gate |-> "admin", handler |-> "analytics.router"],
      [path |-> <<"api", "v1", "widget", "chat">>, gate |-> "none", handler |-> "widget_chat"],
      [path |-> <<"api", "v1", "auth", "logout">>, gate |-> "none", handler |-> "logout_user"],
      [path |-> <<"health">>, gate |-> "none", handler |-> "health_check"] }

\* the dependency of a gated route, with the bearer token of the request;
\* HTTPBearer raises when the header is absent
Gate(route, authorization, expired, fault) ==
    IF route.gate = "none" THEN Returned(None)
    ELSE IF authorization = NoAuthorization
    THEN Raised(HTTPException(403, "Not authenticated"))
    ELSE IF route.gate = "user" THEN get_current_user(authorization, expired, fault)
    ELSE get_current_admin_user(authorization, expired, fault)

\* one HTTP request up to the call of its handler; a request that passed the
\* middleware with a token has _update_user_activity set users.last_active
HttpRequest ==
    \E route \in Routes, authorization \in Presentable \cup {NoAuthorization},
       expired \in BOOLEAN, fault \in DependencyFaults :
        LET d == dispatch(route.path, authorization, expired)
            g == Gate(route, authorization, expired, fault)
        IN /\ call' = [fn |-> "request", route |-> route, token |-> authorization,
                       expired |-> expired, fault |-> fault]
           /\ ret' = [fn |-> "request",
                      res |-> IF d.raised THEN d ELSE g,
                      handler |-> IF d.raised \/ g.raised THEN "none" ELSE route.handler]
           /\ last_active' =
                 IF d.raised THEN last_active
                 ELSE LET seen == IF ~_is_public_route(route.path)
                                     /\ authorization.sub \in UserIds
                                  THEN {authorization.sub} ELSE {}
                          byGate == IF g.raised \/ g.value = None THEN {}
                                    ELSE {g.value.id}
                      IN [id \in DOMAIN last_active |->
                             IF id \in seen \cup byGate THEN "now" ELSE last_active[id]]
           /\ UNCHANGED <<db, nextId, served, rq, admin_users, documents, tokens, settings>>

\* a direct call of the dependency get_current_user
CallGetCurrentUser ==
    \E token \in Presentable, expired \in BOOLEAN, fault \in DependencyFaults :
        LET res == get_current_user(token, expired, fault) IN
        /\ call' = [fn |-> "get_current_user", token |-> token, expired |-> expired]
        /\ ret' = [fn |-> "get_current_user", res |-> res]
        /\ last_active' = Touch(res)
        /\ UNCHANGED <<db, nextId, served, rq, admin_users, documents, tokens, settings>>

\* a direct call of the dependency get_current_admin_user
CallGetCurrentAdminUser ==
    \E token \in Presentable, expired \in BOOLEAN, fault \in DependencyFaults :
        LET res == get_current_admin_user(token, expired, fault) IN
        /\ call' = [fn |-> "get_current_admin_user", token |-> token, expired |-> expired]
        /\ ret' = [fn |-> "get_current_admin_user", res |-> res]
        /\ last_active' = Touch(res)
        /\ UNCHANGED <<db, nextId, served, rq, admin_users, documents, tokens, settings>>

(***************************************************************************)
(* Token endpoints (api/v1/endpoints/auth.py)                              *)
(***************************************************************************)
\* create_user_response(user): the public columns of the row, never its
\* metadata (the password hash); the rows of the model carry no creation time
create_user_response(user) ==
    [id |-> user.id, name |-> user.name, email |-> user.email,
     company |-> user.company, role |-> user.role, phone |-> user.phone]

\* create_admin_response(admin)
create_admin_response(admin) ==
    [id |-> admin.id, name |-> admin.name, email |-> admin.email,
     role |-> admin.role, permissions |-> admin.permissions]

\* TokenResponse(access_token=..., refresh_token=...,
\*               expires_in=settings.ACCESS_TOKEN_EXPIRE_MINUTES * 60, user=...)
TokenResponse(access_token, refresh_token, user) ==
    [status |-> 200,
     body |-> [access_token |-> access_token, refresh_token |-> refresh_token,
               token_type |-> "bearer",
               expires_in |-> settings.ACCESS_TOKEN_EXPIRE_MINUTES * 60,
               user |-> user]]

ErrorResponse(status_code, detail) ==
    [status |-> status_code, body |-> [detail |-> detail]]

\* login_user: email names user u or nobody (u = ""), the password matches
\* the stored hash or not; fault: a database call raises
login_user(u, password_ok, fault) ==
    IF fault THEN ErrorResponse(500, "Failed to login")
    ELSE IF u \notin UserIds \/ ~password_ok
    THEN ErrorResponse(401, "Invalid email or password")
    ELSE TokenResponse(create_access_token([sub |-> u, type |-> "user"]),
                       create_refresh_token([sub |-> u, type |-> "user"]),
                       create_user_response(UserRow(u)))

\* login_admin: the password is compared with the literal "admin123"
login_admin(a, password_ok, fault) ==
    IF fault THEN ErrorResponse(500, "Failed to login admin")
    ELSE IF a \notin AdminIds \/ ~password_ok
    THEN ErrorResponse(401, "Invalid admin credentials")
    ELSE TokenResponse(create_access_token([sub |-> a, type |-> "admin"]),
                       create_refresh_token([sub |-> a, type |-> "admin"]),
                       create_admin_response(AdminRow(a)))

\* the tokens and timestamps after a login response
Issue(response, id) ==
    /\ tokens' = IF response.status = 200
                 THEN tokens \cup {response.body.access_token, response.body.refresh_token}
                 ELSE tokens
    /\ last_active' = IF response.status = 200 /\ id \in DOMAIN last_active
                      THEN [last_active EXCEPT ![id] = "now"]
                      ELSE last_active

LoginUser ==
    \E u \in UserIds \cup {""}, password_ok \in BOOLEAN, fault \in BOOLEAN :
        LET response == login_user(u, password_ok, fault) IN
        /\ call' = [fn |-> "login_user", principal |-> u]
        /\ ret' = [fn |-> "login_user", res |-> response]
        /\ Issue(response, u)
        /\ UNCHANGED <<db, nextId, served, rq, admin_users, documents, settings>>

LoginAdmin ==
    \E a \in AdminIds \cup {""}, password_ok \in BOOLEAN, fault \in BOOLEAN :
        LET response == login_admin(a, password_ok, fault) IN
        /\ call' = [fn |-> "login_admin", principal |-> a]
        /\ ret' = [fn |-> "login_admin", res |-> response]
        /\ Issue(response, a)
        /\ UNCHANGED <<db, nextId, served, rq, admin_users, documents, settings>>

\* refresh_access_token (POST /auth/refresh): user_type is the payload's
\* "type" claim; fault: the lookup raises (get_user_by_id then returns None)
refresh_access_token(token, expired, fault) ==
    LET payload == verify_refresh_token(token, expired)
        user_type == payload.type
        found == /\ ~fault
                 /\ IF user_type = "admin" THEN payload.sub \in AdminIds
                    ELSE payload.sub \in UserIds
    IN IF payload = None THEN ErrorResponse(401, "Invalid refresh token")
       ELSE IF ~found THEN ErrorResponse(401, "User not found")
       ELSE TokenResponse(create_access_token([sub |-> payload.sub, type |-> user_type]),
                          create_refresh_token([sub |-> payload.sub, type |-> user_type]),
                          IF user_type = "admin"
                          THEN create_admin_response(AdminRow(payload.sub))
                          ELSE create_user_response(UserRow(payload.sub)))

RefreshAccessToken ==
    \E token \in Presentable, expired \in BOOLEAN, fault \in BOOLEAN :
        LET response == refresh_access_token(token, expired, fault) IN
        /\ call' = [fn |-> "refresh_access_token", token |-> token, expired |-> expired,
                     fault |-> fault]
        /\ ret' = [fn |-> "refresh_access_token", res |-> response]
        /\ tokens' = IF response.status = 200
                     THEN tokens \cup {response.body.access_token,
                                       response.body.refresh_token}
                     ELSE tokens
        /\ UNCHANGED <<db, nextId, served, rq, admin_users, documents, last_active, settings>>

(***************************************************************************)
(* Specification: logins, token refresh and authenticated requests         *)
(***************************************************************************)
InitAuth ==
    /\ InitDb
    /\ InitSite
    /\ served = 0
    /\ rq = [r \in Reqs |-> IdleReq]
    /\ call = NoCall
    /\ ret = NoCall

NextAuth ==
    \/ LoginUser
    \/ LoginAdmin
    \/ RefreshAccessToken
    \/ CallGetCurrentUser
    \/ CallGetCurrentAdminUser
    \/ HttpRequest

SpecAuth == InitAuth /\ [][NextAuth]_vars

(***************************************************************************)
(* upload_document (api/v1/router.py)                                      *)
(***************************************************************************)
MaxUploads == 2

\* config.py Settings.max_file_size_bytes
max_file_size_bytes == settings.MAX_FILE_SIZE_MB * 1024 * 1024

\* the configurations the service is started with
SettingsChoices ==
    { DefaultSettings, [DefaultSettings EXCEPT !.MAX_FILE_SIZE_MB = 5],
      [DefaultSettings EXCEPT !.DEBUG = FALSE] }

\* file.filename and file.size (None when the client sent no length)
FileNames == {"report.pdf", "report.png", "setup.exe"}
FileSizes ==
    { None, JInt(1), JInt(6 * 1024 * 1024), JInt(10 * 1024 * 1024),
      JInt(10 * 1024 * 1024 + 1) }

\* the characters after the last dot of the file name ("" when it has none)
FileExtension(filename) ==
    LET dots == {i \in 1..Len(filename) : SubSeq(filename, i, i) = "."}
        last == CHOOSE i \in dots : \A k \in dots : k <= i
    IN IF dots = {} THEN "" ELSE SubSeq(filename, last + 1, Len(filename))

\* documents.is_allowed_file_type(filename)
is_allowed_file_type(filename) == FileExtension(filename) \in settings.ALLOWED_FILE_TYPES

\* documents.save_document: the Document row
save_document(id, filename, size, user_id) ==
    [id |-> id, user_id |-> user_id, original_filename |-> filename,
     file_size |-> size.n, processing_status |-> "pending"]

\* file.size > (10 * 1024 * 1024); the comparison raises TypeError when
\* file.size is None
FileTooLarge(size) == size.n > 10 * 1024 * 1024

\* except Exception as e: raise HTTPException(500, f"Error uploading ...")
upload_except(e) ==
    [status |-> 500, body |-> [detail |-> "Error uploading document", cause |-> e]]

\* an upload request: its position, its arguments, the row its session holds
\* uncommitted, and its response
IdleUploadReq ==
    [pc |-> "idle", user_id |-> "", filename |-> "", size |-> None,
     save_called |-> FALSE, document |-> None, tx |-> << >>, exc |-> None, result |-> NoResult,
     session |-> << >>]

\* the request arrives: get_db_session opens the session and get_current_user
\* resolves the caller on it, sets last_active and commits.  fault: the SELECT
\* or that commit raises, and the request ends with the 401
UploadArrive(r) ==
    /\ rq[r].pc \in {"idle", "done"}
    /\ served < MaxUploads
    /\ served' = served + 1
    /\ \E user_id \in UserIds, filename \in FileNames, size \in FileSizes,
          fault \in DependencyFaults :
         LET res == get_current_user(Token(user_id, "user", TRUE), FALSE, fault)
             rec == [IdleUploadReq EXCEPT !.user_id = user_id, !.filename = filename,
                                          !.size = size]
         IN /\ rq' = [rq EXCEPT ![r] =
                        IF res.raised
                        THEN [rec EXCEPT !.pc = "raised", !.exc = res.value,
                                         !.session =
                                             IF fault = "commit"
                                             THEN <<SessionOp("commit", "get_current_user", FALSE)>>
                                             ELSE << >>,
                                         !.result = [status |-> res.value.n,
                                                     body |-> [detail |-> res.value.s,
                                                               cause |-> res.value]]]
                        ELSE [rec EXCEPT !.pc = "handler",
                                         !.session = <<SessionOp("commit", "get_current_user", TRUE)>>]]
            /\ last_active' = Touch(res)
    /\ UNCHANGED <<db, nextId, call, ret, admin_users, documents, tokens, settings>>

\* the handler upload_document: the two tests, then the awaited
\* documents.save_document on the request's session.  fault: save_document raises
UploadDocument(r) ==
    LET rec == rq[r] IN
    /\ rec.pc = "handler"
    /\ \E fault \in BOOLEAN :
         LET rejected ==
                 IF ~is_allowed_file_type(rec.filename)
                 THEN HTTPException(400, "File type not allowed")
                 ELSE IF rec.size = None THEN [t |-> "TypeError", s |-> "file.size", n |-> 0]
                 ELSE IF FileTooLarge(rec.size) THEN HTTPException(400, "File too large")
                 ELSE None
             document == save_document(nextId, rec.filename, rec.size, rec.user_id)
         IN IF rejected # None
            THEN /\ rq' = [rq EXCEPT ![r] =
                             [rec EXCEPT !.pc = "raised", !.exc = rejected,
                                         !.result = upload_except(rejected)]]
                 /\ UNCHANGED nextId
            ELSE IF fault
            THEN /\ rq' = [rq EXCEPT ![r] =
                             [rec EXCEPT !.pc = "raised", !.save_called = TRUE,
                                         !.exc = DBError("save_document"),
                                         !.result = upload_except(DBError("save_document"))]]
                 /\ UNCHANGED nextId
            ELSE /\ rq' = [rq EXCEPT ![r] =
                             [rec EXCEPT !.pc = "returned", !.save_called = TRUE,
                                         !.document = document,
                                         !.tx = <<document>>,
                                         !.result =
                                             [status |-> 200,
                                              body |-> [document_id |-> document.id,
                                                        filename |-> document.original_filename,
                                                        status |-> document.processing_status]]]]
                 /\ nextId' = nextId + 1
    /\ UNCHANGED <<db, served, call, ret, apiState>>

\* get_db_session after the handler returned: commit, and on a failing commit
\* rollback and re-raise; then close.  As for the chat request, the client
\* gets the response of global_exception_handler or already holds the handler's
UploadCommit(r) ==
    LET rec == rq[r] IN
    /\ rec.pc = "returned"
    /\ \E fault \in BOOLEAN, response_sent \in BOOLEAN :
         IF fault
         THEN /\ rq' = [rq EXCEPT ![r] =
                          [rec EXCEPT !.pc = "done", !.tx = << >>,
                                      !.exc = DBError("commit"),
                                      !.session = @ \o get_db_session(FALSE, TRUE),
                                      !.result =
                                          IF response_sent THEN rec.result
                                          ELSE global_exception_handler(DBError("commit"))]]
              /\ UNCHANGED documents
         ELSE /\ rq' = [rq EXCEPT ![r] =
                          [rec EXCEPT !.pc = "done", !.tx = << >>,
                                      !.session = @ \o get_db_session(FALSE, FALSE)]]
              /\ documents' = documents \o rec.tx
    /\ UNCHANGED <<db, nextId, served, call, ret, admin_users, last_active, tokens, settings>>

\* get_db_session after the handler or get_current_user raised: rollback, close
UploadRollback(r) ==
    LET rec == rq[r] IN
    /\ rec.pc = "raised"
    /\ rq' = [rq EXCEPT ![r] = [rec EXCEPT !.pc = "done", !.tx = << >>,
                                           !.session = @ \o get_db_session(TRUE, FALSE)]]
    /\ UNCHANGED <<db, nextId, served, call, ret, apiState>>

(***************************************************************************)
(* Specification: document uploads under a configured size ceiling, two    *)
(* requests in flight                                                      *)
(***************************************************************************)
InitUpload ==
    /\ InitDb
    /\ tokens = {}
    /\ settings \in SettingsChoices
    /\ served = 0
    /\ rq = [r \in Reqs |-> IdleUploadReq]
    /\ call = NoCall
    /\ ret = NoCall

NextUpload ==
    \E r \in Reqs :
        \/ UploadArrive(r)
        \/ UploadDocument(r)
        \/ UploadCommit(r)
        \/ UploadRollback(r)

SpecUpload == InitUpload /\ [][NextUpload]_vars

(***************************************************************************)
(* Account endpoints (api/v1/endpoints/auth.py): register_user,            *)
(* get_or_create_widget_user, request_password_reset, update_user_profile. *)
(* Each request is a lookup followed by a store, so that two requests can  *)
(* interleave, and ends with get_db_session's commit or rollback of the    *)
(* request's session.                                                      *)
(***************************************************************************)
MaxAccountRequests == 3

\* the emails and session ids clients submit; an optional email is None
RegisterEmails == {"ann@acme.example", "cat@example.org"}
SessionIds == {"s1"}
WidgetEmails == {None, JStr("cat@example.org")}
ResetEmails == {"ann@acme.example", "cat@example.org"}

IdleAccountReq ==
    [pc |-> "idle", kind |-> "", email |-> "", session_id |-> "", taken |-> FALSE,
     lookup_raised |-> FALSE, existing |-> None, created |-> "", issued |-> {},
     wrote |-> {}, exc |-> None, teardown |-> None, profile |-> None,
     result |-> NoResult]

\* uuid.uuid4() as the id of a new User
FreshUserId(n) == "u" \o ToString(n)

\* variant: the lookup finds nobody
get_user_by_email_finds_nobody(table, email) == None

\* get_user_by_email: select(User).where(User.email == email), scalar_one_or_none
get_user_by_email(table, email) ==
    LET hit(u) == u.email = email
    IN IF Rows(table, hit) # << >> THEN Head(Rows(table, hit)) ELSE None

\* the unique index on users.email refuses a second row with this email
UniqueEmailViolated(table, email) == \E i \in DOMAIN table : table[i].email = email

\* the rows whose metadata['session_id'] is session_id
RowsOfSession(table, session_id) ==
    LET hit(u) == "session_id" \in DOMAIN u.metadata /\ u.metadata.session_id = session_id
    IN Rows(table, hit)

\* the handler finishes with this response, returned (200) or raised as an
\* HTTPException; exc is what the handler caught
Finish(rec, exc, result) ==
    [rec EXCEPT !.pc = IF result.status = 200 THEN "returned" ELSE "raised",
                !.exc = exc, !.result = result]

\* the outcomes of db_session.commit() followed by db_session.refresh(new_user)
StoreFaults == {"none", "commit", "refresh"}

\* the row is inserted and committed: users and the timestamp column after it
InsertUser(new_user) ==
    /\ users' = Append(users, new_user)
    /\ last_active' = (new_user.id :> "now") @@ last_active
    /\ nextId' = nextId + 1

\* a request of one of the three endpoints arrives with its body
AccountArrive(r) ==
    /\ rq[r].pc \in {"idle", "done"}
    /\ served < MaxAccountRequests
    /\ served' = served + 1
    /\ \/ \E email \in RegisterEmails :
            rq' = [rq EXCEPT ![r] =
                     [IdleAccountReq EXCEPT !.pc = "lookup", !.kind = "register_user",
                                            !.email = email,
                                            !.taken = UniqueEmailViolated(users, email)]]
       \/ \E session_id \in SessionIds, email \in WidgetEmails :
            LET user_email == IF Truthy(email) THEN email.s
                              ELSE "widget-" \o session_id \o "@temp.openhealth.com"
            IN rq' = [rq EXCEPT ![r] =
                        [IdleAccountReq EXCEPT !.pc = "lookup",
                                               !.kind = "get_or_create_widget_user",
                                               !.email = user_email,
                                               !.session_id = session_id,
                                               !.taken = RowsOfSession(users, session_id) # << >>]]
       \/ \E email \in ResetEmails :
            rq' = [rq EXCEPT ![r] =
                     [IdleAccountReq EXCEPT !.pc = "lookup",
                                            !.kind = "request_password_reset",
                                            !.email = email,
                                            !.taken = UniqueEmailViolated(users, email)]]
    /\ UNCHANGED <<db, nextId, call, ret, apiState>>

\* register_user: existing_user = await get_user_by_email(...); 400 when found;
\* fault: the SELECT raises (except Exception: 500)
RegisterLookup(r) ==
    LET rec == rq[r] IN
    /\ rec.pc = "lookup" /\ rec.kind = "register_user"
    /\ \E fault \in BOOLEAN :
         LET existing_user == get_user_by_email(users, rec.email) IN
         rq' = [rq EXCEPT ![r] =
                  IF fault
                  THEN [Finish(rec, DBError("get_user_by_email"),
                               ErrorResponse(500, "Failed to register user"))
                           EXCEPT !.lookup_raised = TRUE]
                  ELSE IF existing_user # None
                  THEN Finish([rec EXCEPT !.existing = existing_user],
                              HTTPException(400, "User with this email already exists"),
                              ErrorResponse(400, "User with this email already exists"))
                  ELSE [rec EXCEPT !.pc = "store"]]
    /\ UNCHANGED <<db, nextId, served, call, ret, apiState>>

\* register_user: db_session.add(new_user); db_session.commit();
\* db_session.refresh(new_user); then the tokens.  The commit raises when the
\* unique index refuses the email, or on a fault, and nothing is stored; the
\* refresh raises on a fault, after the row was committed.  In both cases
\* except Exception answers 500 and no token is created.
RegisterStore(r) ==
    LET rec == rq[r] IN
    /\ rec.pc = "store" /\ rec.kind = "register_user"
    /\ \E fault \in StoreFaults :
         LET new_user == [id |-> FreshUserId(nextId), email |-> rec.email,
                          name |-> "New User", company |-> None, role |-> None,
                          phone |-> None,
                          metadata |-> [password_hash |-> "hash",
                                        email_verified |-> "False"]]
             access_token == create_access_token([sub |-> new_user.id, type |-> "user"])
             refresh_token == create_refresh_token([sub |-> new_user.id, type |-> "user"])
         IN IF fault = "commit" \/ UniqueEmailViolated(users, rec.email)
            THEN /\ rq' = [rq EXCEPT ![r] =
                             Finish(rec,
                                    IF fault = "commit" THEN DBError("commit")
                                    ELSE DBError("IntegrityError users.email"),
                                    ErrorResponse(500, "Failed to register user"))]
                 /\ UNCHANGED <<users, last_active, nextId, tokens>>
            ELSE IF fault = "refresh"
            THEN /\ rq' = [rq EXCEPT ![r] =
                             Finish([rec EXCEPT !.created = new_user.id],
                                    DBError("refresh"),
                                    ErrorResponse(500, "Failed to register user"))]
                 /\ InsertUser(new_user)
                 /\ UNCHANGED tokens
            ELSE /\ rq' = [rq EXCEPT ![r] =
                             Finish([rec EXCEPT !.created = new_user.id,
                                                !.issued = {access_token, refresh_token}],
                                    None,
                                    TokenResponse(access_token, refresh_token,
                                                  create_user_response(new_user)))]
                 /\ InsertUser(new_user)
                 /\ tokens' = tokens \cup {access_token, refresh_token}
    /\ UNCHANGED <<conversations, messages, ventures, meetings, served, call, ret,
                   admin_users, documents, settings>>

\* get_or_create_widget_user: the SELECT by metadata['session_id'];
\* scalar_one_or_none raises when several rows match; except Exception: 500
WidgetLookup(r) ==
    LET rec == rq[r] IN
    /\ rec.pc = "lookup" /\ rec.kind = "get_or_create_widget_user"
    /\ \E fault \in BOOLEAN :
         LET found == RowsOfSession(users, rec.session_id) IN
         rq' = [rq EXCEPT ![r] =
                  IF fault
                  THEN [Finish(rec, DBError("select"),
                               ErrorResponse(500, "Failed to create widget user"))
                           EXCEPT !.lookup_raised = TRUE]
                  ELSE IF Len(found) > 1
                  THEN [Finish(rec, DBError("MultipleResultsFound"),
                               ErrorResponse(500, "Failed to create widget user"))
                           EXCEPT !.lookup_raised = TRUE]
                  ELSE IF Len(found) = 1
                  THEN Finish([rec EXCEPT !.existing = found[1]], None,
                              [status |-> 200, body |-> create_user_response(found[1])])
                  ELSE [rec EXCEPT !.pc = "store"]]
    /\ UNCHANGED <<db, nextId, served, call, ret, apiState>>

\* get_or_create_widget_user: the new User is added, committed and
\* refreshed; a refresh that raises leaves the committed row behind the 500
WidgetStore(r) ==
    LET rec == rq[r] IN
    /\ rec.pc = "store" /\ rec.kind = "get_or_create_widget_user"
    /\ \E fault \in StoreFaults :
         LET new_user == [id |-> FreshUserId(nextId), email |-> rec.email,
                          name |-> "Healthcare Entrepreneur", company |-> None,
                          role |-> JStr("widget_user"), phone |-> None,
                          metadata |-> [session_id |-> rec.session_id,
                                        source |-> "widget", temporary |-> "True"]]
         IN IF fault = "commit" \/ UniqueEmailViolated(users, rec.email)
            THEN /\ rq' = [rq EXCEPT ![r] =
                             Finish(rec,
                                    IF fault = "commit" THEN DBError("commit")
                                    ELSE DBError("IntegrityError users.email"),
                                    ErrorResponse(500, "Failed to create widget user"))]
                 /\ UNCHANGED <<users, last_active, nextId>>
            ELSE IF fault = "refresh"
            THEN /\ rq' = [rq EXCEPT ![r] =
                             Finish([rec EXCEPT !.created = new_user.id],
                                    DBError("refresh"),
                                    ErrorResponse(500, "Failed to create widget user"))]
                 /\ InsertUser(new_user)
            ELSE /\ rq' = [rq EXCEPT ![r] =
                             Finish([rec EXCEPT !.created = new_user.id], None,
                                    [status |-> 200,
                                     body |-> create_user_response(new_user)])]
                 /\ InsertUser(new_user)
    /\ UNCHANGED <<conversations, messages, ventures, meetings, served, call, ret,
                   admin_users, documents, tokens, settings>>

\* the dict request_password_reset returns
PasswordResetResponse ==
    [status |-> 200,
     body |-> [message |-> "If the email exists, a password reset link has been sent"]]

\* except Exception as e: return {"message": "If the email exists, ..."}
password_reset_except == PasswordResetResponse

\* request_password_reset: user = await get_user_by_email(...)
ResetLookup(r) ==
    LET rec == rq[r] IN
    /\ rec.pc = "lookup" /\ rec.kind = "request_password_reset"
    /\ \E fault \in BOOLEAN :
         LET user == get_user_by_email(users, rec.email) IN
         rq' = [rq EXCEPT ![r] =
                  IF fault
                  THEN [Finish(rec, DBError("get_user_by_email"), password_reset_except)
                           EXCEPT !.lookup_raised = TRUE]
                  ELSE IF user = None
                  THEN Finish(rec, None, PasswordResetResponse)
                  ELSE [rec EXCEPT !.pc = "store", !.existing = user]]
    /\ UNCHANGED <<db, nextId, served, call, ret, apiState>>

\* `m = row.metadata or {}; m.update(...); row.metadata = m`: m is a new dict
\* only when the loaded metadata is empty or null.  Otherwise m is the loaded
\* dict itself, changed in place and assigned to the attribute that already
\* holds it: the JSONB column is not tracked for mutation, the unit of work
\* compares the attribute with itself, and commit() writes no metadata
metadata_reassigned(loaded) == ~Truthy(JDict(loaded))

\* request_password_reset: the token and its expiry are put in user_metadata
\* (the metadata as read by the lookup, updated), which is assigned to
\* user.metadata and committed; the UPDATE carries the column only when
\* metadata_reassigned.  fault: commit() raises
ResetStore(r) ==
    LET rec == rq[r] IN
    /\ rec.pc = "store" /\ rec.kind = "request_password_reset"
    /\ \E fault \in BOOLEAN :
         LET user_metadata ==
                 [password_reset_token |-> "reset-" \o ToString(nextId),
                  password_reset_expires |-> "in one hour"] @@ rec.existing.metadata
             table == [i \in DOMAIN users |->
                          IF users[i].id = rec.existing.id
                             /\ metadata_reassigned(rec.existing.metadata)
                          THEN [users[i] EXCEPT !.metadata = user_metadata]
                          ELSE users[i]]
             changed == {users[i].id : i \in {j \in DOMAIN users : table[j] # users[j]}}
         IN IF fault
            THEN /\ rq' = [rq EXCEPT ![r] =
                             Finish(rec, DBError("commit"), password_reset_except)]
                 /\ UNCHANGED <<users, nextId>>
            ELSE /\ rq' = [rq EXCEPT ![r] =
                             Finish([rec EXCEPT !.wrote = changed], None,
                                    PasswordResetResponse)]
                 /\ users' = table
                 /\ nextId' = nextId + 1
    /\ UNCHANGED <<conversations, messages, ventures, meetings, served, call, ret, apiState>>

\* str.strip() on the bodies below, whose only white space is the blank
RECURSIVE strip(_)
strip(s) ==
    IF s # "" /\ SubSeq(s, 1, 1) = " " THEN strip(SubSeq(s, 2, Len(s)))
    ELSE IF s # "" /\ SubSeq(s, Len(s), Len(s)) = " " THEN strip(SubSeq(s, 1, Len(s) - 1))
    ELSE s

\* the bodies of PUT /auth/profile (UserProfileUpdate), sent by user u1
ProfileUpdates ==
    { [name |-> JStr(" Zed "), company |-> None, role |-> None, phone |-> None,
       metadata |-> None],
      [name |-> None, company |-> JStr("  "), role |-> JStr("cto"),
       phone |-> JStr("555 0100"), metadata |-> None],
      [name |-> None, company |-> None, role |-> None, phone |-> None,
       metadata |-> JDict([plan |-> "pro"])] }
ProfileCallers == {"u1"}

\* PUT /auth/profile arrives: the dependency get_current_user loads the user
\* and commits last_active; the session keeps the loaded row
\* (expire_on_commit=False).  fault: the SELECT or that commit raises
ProfileArrive(r) ==
    /\ rq[r].pc \in {"idle", "done"}
    /\ served < MaxAccountRequests
    /\ served' = served + 1
    /\ \E user_id \in ProfileCallers, profile_data \in ProfileUpdates,
          fault \in DependencyFaults :
         LET res == get_current_user(Token(user_id, "user", TRUE), FALSE, fault)
             rec == [IdleAccountReq EXCEPT !.kind = "update_user_profile",
                                           !.profile = profile_data]
         IN /\ rq' = [rq EXCEPT ![r] =
                        IF res.raised
                        THEN Finish(rec, res.value, ErrorResponse(res.value.n, res.value.s))
                        ELSE [rec EXCEPT !.pc = "store", !.existing = res.value]]
            /\ last_active' = Touch(res)
    /\ UNCHANGED <<db, nextId, call, ret, admin_users, documents, tokens, settings>>

\* update_user_profile: the fields of the body that are not None are set on
\* current_user (strip(), and `or None` for company, role and phone), the
\* metadata is merged as in request_password_reset, then commit() and
\* refresh(current_user).  The UPDATE carries the columns whose value differs
\* from the loaded one; the response is built from the refreshed row.
\* fault: commit() or refresh() raises (except Exception: 500)
UpdateUserProfile(r) ==
    LET rec == rq[r]
        current_user == rec.existing
        profile_data == rec.profile
        stripped(v) == IF strip(v.s) = "" THEN None ELSE JStr(strip(v.s))
        name == IF profile_data.name # None THEN strip(profile_data.name.s)
                ELSE current_user.name
        company == IF profile_data.company # None THEN stripped(profile_data.company)
                   ELSE current_user.company
        role == IF profile_data.role # None THEN stripped(profile_data.role)
                ELSE current_user.role
        phone == IF profile_data.phone # None THEN stripped(profile_data.phone)
                 ELSE current_user.phone
        existing_metadata == IF profile_data.metadata # None
                             THEN profile_data.metadata.d @@ current_user.metadata
                             ELSE current_user.metadata
        metadata_written == profile_data.metadata # None
                                /\ metadata_reassigned(current_user.metadata)
        updated(u) ==
            [u EXCEPT !.name = IF name # current_user.name THEN name ELSE @,
                      !.company = IF company # current_user.company THEN company ELSE @,
                      !.role = IF role # current_user.role THEN role ELSE @,
                      !.phone = IF phone # current_user.phone THEN phone ELSE @,
                      !.metadata = IF metadata_written THEN existing_metadata ELSE @]
        table == [i \in DOMAIN users |->
                     IF users[i].id = current_user.id THEN updated(users[i]) ELSE users[i]]
        changed == {users[i].id : i \in {j \in DOMAIN users : table[j] # users[j]}}
        refreshed == table[CHOOSE i \in DOMAIN table : table[i].id = current_user.id]
        failed == ErrorResponse(500, "Failed to update profile")
    IN
    /\ rec.pc = "store" /\ rec.kind = "update_user_profile"
    /\ \E fault \in StoreFaults :
         IF fault = "commit"
         THEN /\ rq' = [rq EXCEPT ![r] = Finish(rec, DBError("commit"), failed)]
              /\ UNCHANGED users
         ELSE IF fault = "refresh"
         THEN /\ rq' = [rq EXCEPT ![r] =
                          Finish([rec EXCEPT !.wrote = changed], DBError("refresh"), failed)]
              /\ users' = table
         ELSE /\ rq' = [rq EXCEPT ![r] =
                          Finish([rec EXCEPT !.wrote = changed], None,
                                 [status |-> 200,
                                  body |-> [message |-> "Profile updated successfully",
                                            user |-> create_user_response(refreshed)]])]
              /\ users' = table
    /\ UNCHANGED <<conversations, messages, ventures, meetings, nextId, served, call, ret,
                   apiState>>

\* get_db_session after the handler returned: session.commit(), which finds
\* nothing left to write (the handlers commit their own writes); when it
\* raises, rollback, re-raise and close: the client gets the response of
\* global_exception_handler or already holds the handler's
AccountCommit(r) ==
    LET rec == rq[r] IN
    /\ rec.pc = "returned"
    /\ \E fault \in BOOLEAN, response_sent \in BOOLEAN :
         rq' = [rq EXCEPT ![r] =
                  IF fault
                  THEN [rec EXCEPT !.pc = "done", !.teardown = DBError("commit"),
                                   !.result =
                                       IF response_sent THEN rec.result
                                       ELSE global_exception_handler(DBError("commit"))]
                  ELSE [rec EXCEPT !.pc = "done"]]
    /\ UNCHANGED <<db, nextId, served, call, ret, apiState>>

\* get_db_session after the handler raised: rollback, re-raise, close
AccountRollback(r) ==
    LET rec == rq[r] IN
    /\ rec.pc = "raised"
    /\ rq' = [rq EXCEPT ![r] = [rec EXCEPT !.pc = "done"]]
    /\ UNCHANGED <<db, nextId, served, call, ret, apiState>>

(***************************************************************************)
(* Specification: account requests, two of them in flight at a time        *)
(***************************************************************************)
InitAccounts ==
    /\ InitDb
    /\ InitSite
    /\ served = 0
    /\ rq = [r \in Reqs |-> IdleAccountReq]
    /\ call = NoCall
    /\ ret = NoCall

NextAccounts ==
    \E r \in Reqs :
        \/ AccountArrive(r)
        \/ RegisterLookup(r)
        \/ RegisterStore(r)
        \/ WidgetLookup(r)
        \/ WidgetStore(r)
        \/ ResetLookup(r)
        \/ ResetStore(r)
        \/ ProfileArrive(r)
        \/ UpdateUserProfile(r)
        \/ AccountCommit(r)
        \/ AccountRollback(r)

SpecAccounts == InitAccounts /\ [][NextAccounts]_vars

(***************************************************************************)
(* Properties                                                              *)
(***************************************************************************)
Done(r) == rq[r].pc = "done"
\* the request succeeded: its handler answered 200 and its session's commit
\* completed
Succeeded(r) ==
    Done(r) /\ rq[r].result.status = 200 /\ rq[r].exc # DBError("commit")

FallbackPair == [response |-> FallbackText, extracted |-> EmptyDict]

\* an exception reaches the except clause of generate_response: from
\* _build_system_prompt, from the API call, or from reading the reply
FailureInTry(c) ==
    _build_system_prompt_raises(c.user_context) \/ c.o.kind # "text"

\* user_context['company'].lower() raises inside _extract_structured_data
FailureInExtraction(c) ==
    /\ ~FailureInTry(c)
    /\ c.user_context # None
    /\ Truthy(c.user_context.company)
    /\ c.user_context.company.t # "str"

CalledGenerateResponse == call.fn = "generate_response" /\ ret # NoCall

\* C1 as stated: generate_response never raises, and whenever an exception is
\* raised while building the system prompt, calling the model, reading the
\* reply or extracting fields, it returns (fallback string, empty map).
C1_AsStated ==
    CalledGenerateResponse =>
        /\ ~ret.res.raised
        /\ (FailureInTry(call) \/ FailureInExtraction(call)) =>
               ret.res.value = FallbackPair

\* C1 amended: generate_response never raises; an exception from building the
\* system prompt, from the model call or from reading the reply yields
\* (fallback string, empty map); an exception raised inside the field extraction
\* is swallowed there and yields the reply text with the map as filled so far
\* (the keyword fields set, no entity).
C1_NeverRaises ==
    CalledGenerateResponse =>
        /\ ~ret.res.raised
        /\ FailureInTry(call) => ret.res.value = FallbackPair
        /\ FailureInExtraction(call) =>
               /\ ret.res.value.response = call.o.text
               /\ ret.res.value.extracted =
                      _extract_structured_data(call.o.text, None)

C1_Witness ==
    /\ CalledGenerateResponse
    /\ call.o.kind = "call_raise"
    /\ ret.res.value = FallbackPair

(***************************************************************************)
(* Properties of chat_endpoint                                             *)
(***************************************************************************)
\* the external model failed in every call made for request r
ModelDown(r) ==
    /\ rq[r].model_calls # << >>
    /\ \A i \in DOMAIN rq[r].model_calls : ~rq[r].model_calls[i].answered

\* the two rows a successful request adds to table messages
NewMessagesOf(r) ==
    << create_message(rq[r].user_message.id, rq[r].conversation.id, "user",
                      rq[r].message, EmptyDict),
       create_message(rq[r].ai_message.id, rq[r].conversation.id, "assistant",
                      rq[r].result.body.response, rq[r].result.body.extracted_data) >>

\* C2: when every model call of a request fails, the model failure is never
\* the request's error, and unless persistence fails the request succeeds with
\* the fallback string and an empty extraction map, both messages persisted,
\* and no Venture and no Meeting row created.
C2_ModelDownStillAnswers ==
    \A r \in Reqs :
        (Done(r) /\ ModelDown(r)) =>
            /\ rq[r].exc.t # "ModelError"
            /\ rq[r].exc = None =>
                  /\ rq[r].result.status = 200
                  /\ rq[r].result.body.response = FallbackText
                  /\ rq[r].result.body.extracted_data = EmptyDict
                  /\ messages = rq[r].snap.messages \o NewMessagesOf(r)
                  /\ ventures = rq[r].snap.ventures
                  /\ meetings = rq[r].snap.meetings
                  /\ rq[r].result.body.venture_data = None
                  /\ rq[r].result.body.meeting_request = None

C2_Witness ==
    \E r \in Reqs :
        /\ Succeeded(r)
        /\ ModelDown(r)
        /\ Len(rq[r].model_calls) = 2
        /\ Len(messages) = Len(rq[r].snap.messages) + 2

\* the request names a stored conversation that another user owns
NamesForeignConversation(r) ==
    /\ rq[r].pc # "idle"
    /\ rq[r].cid # None
    /\ \E i \in DOMAIN rq[r].snap.conversations :
          /\ rq[r].snap.conversations[i].id = rq[r].cid.n
          /\ rq[r].snap.conversations[i].user_id # rq[r].caller

\* C3: a request naming another user's conversation fails before any data of
\* that conversation is used: no message is loaded or sent to the model, the
\* response is not a success, and no row is written.
C3_ForeignConversationUntouched ==
    \A r \in Reqs :
        NamesForeignConversation(r) =>
            /\ rq[r].pc \in {"resolve", "raised", "done"}
            /\ rq[r].conversation = None
            /\ rq[r].formatted_messages = << >>
            /\ rq[r].sent = << >>
            /\ rq[r].model_calls = << >>
            /\ rq[r].tx = EmptyTx
            /\ rq[r].result.status # 200
            /\ Done(r) => /\ messages = rq[r].snap.messages
                          /\ ventures = rq[r].snap.ventures
                          /\ meetings = rq[r].snap.meetings

C3_Witness ==
    \E r \in Reqs :
        /\ Done(r)
        /\ NamesForeignConversation(r)
        /\ rq[r].exc.t = "HTTPException"
        /\ get_conversation_messages(messages, rq[r].cid.n) # << >>

\* the chat request's conversation_id names no conversation of the caller
\* and the lookup itself did not fail
ConversationNotFound(r) ==
    /\ Done(r)
    /\ rq[r].cid # None
    /\ get_conversation(rq[r].snap.conversations, rq[r].cid.n, rq[r].caller) = None
    /\ rq[r].exc.t # "DBError"

\* C4: a conversation_id that is absent or not owned by the caller ends the
\* request with status 404, "Conversation not found", not with a 500.
C4_NotFoundIs404 ==
    \A r \in Reqs :
        ConversationNotFound(r) =>
            /\ rq[r].result.status = 404
            /\ rq[r].result.body.detail = "Conversation not found"

\* C5: a successful request appends exactly two rows to table messages, the
\* user's message and then the assistant's reply with the extraction map as
\* metadata, both in the resolved conversation and with fresh ids; the rows
\* stored before are unchanged; message_id names the assistant row.
C5_TwoMessagesAppended ==
    \A r \in Reqs :
        Succeeded(r) =>
            LET n == Len(rq[r].snap.messages) IN
            /\ messages = rq[r].snap.messages \o NewMessagesOf(r)
            /\ messages[n + 2].metadata = rq[r].extracted_data
            /\ messages[n + 2].content = rq[r].ai_response
            /\ rq[r].result.body.message_id = messages[n + 2].id
            /\ messages[n + 1].id # messages[n + 2].id
            /\ \A i \in 1..n : messages[i].id \notin {messages[n + 1].id, messages[n + 2].id}
            /\ \/ rq[r].cid = None
               \/ rq[r].conversation.id = rq[r].cid.n

C5_Witness ==
    \E r \in Reqs :
        /\ Succeeded(r)
        /\ rq[r].cid # None
        /\ rq[r].snap.messages # << >>
        /\ rq[r].extracted_data # EmptyDict
        /\ rq[r].extracted_data.intent = "venture_discussion"

\* persisting the user message or the assistant message failed in request r
MessageWriteFailed(r) ==
    /\ rq[r].exc.t = "DBError"
    /\ rq[r].exc.s \in {"create_message user", "create_message assistant"}

\* C6: when persisting either message fails the request ends with status 500,
\* never with a success, and no meeting detection, Venture upsert or Meeting
\* creation is performed in it.
C6_MessageWriteFailureIs500 ==
    \A r \in Reqs :
        MessageWriteFailed(r) =>
            /\ rq[r].pc \in {"raised", "done"}
            /\ rq[r].result.status = 500
            /\ rq[r].meeting_request = None
            /\ \A i \in DOMAIN rq[r].model_calls :
                  rq[r].model_calls[i].fn = "generate_response"
            /\ rq[r].venture_data = None
            /\ rq[r].venture_exc = None
            /\ rq[r].meeting_data = None
            /\ rq[r].tx.ventures = << >>
            /\ rq[r].tx.meetings = << >>
            /\ Done(r) => /\ ventures = rq[r].snap.ventures
                          /\ meetings = rq[r].snap.meetings

C6_Witness ==
    \E r \in Reqs :
        /\ Done(r)
        /\ rq[r].exc = DBError("create_message assistant")
        /\ rq[r].user_message # None

\* C7: a successful request adds exactly one Meeting row, linked to the caller
\* and to the request's conversation, when detect_meeting_request returned
\* requested = true, and adds none when it returned requested = false.
C7_OneMeetingIffRequested ==
    \A r \in Reqs :
        Succeeded(r) =>
            /\ rq[r].meeting_request.requested = JTrue =>
                  /\ Len(meetings) = Len(rq[r].snap.meetings) + 1
                  /\ SubSeq(meetings, 1, Len(rq[r].snap.meetings)) = rq[r].snap.meetings
                  /\ meetings[Len(meetings)].user_id = rq[r].caller
                  /\ meetings[Len(meetings)].conversation_id = rq[r].conversation.id
                  /\ rq[r].result.body.meeting_request = meetings[Len(meetings)]
            /\ rq[r].meeting_request.requested = JFalse =>
                  /\ meetings = rq[r].snap.meetings
                  /\ rq[r].result.body.meeting_request = None

C7_Witness ==
    \E r \in Reqs :
        /\ Succeeded(r)
        /\ rq[r].meeting_request.requested = JTrue
        /\ rq[r].snap.meetings # << >>
        /\ Len(meetings) = Len(rq[r].snap.meetings) + 1

\* analyze_venture was called for request r
AnalyzeInvoked(r) ==
    \E i \in DOMAIN rq[r].model_calls : rq[r].model_calls[i].fn = "analyze_venture"

\* C8: only a request whose extraction has intent "venture_discussion" calls
\* analyze_venture or writes a Venture row; any other request leaves table
\* ventures unchanged and returns venture_data null.
C8_VentureOnlyOnVentureIntent ==
    \A r \in Reqs :
        (rq[r].pc \in {"meeting", "returned", "raised", "done"}
           /\ Get(rq[r].extracted_data, "intent", "") # "venture_discussion") =>
            /\ ~AnalyzeInvoked(r)
            /\ rq[r].venture_exc = None
            /\ rq[r].venture_data = None
            /\ rq[r].tx.ventures = << >>
            /\ Done(r) => ventures = rq[r].snap.ventures
            /\ Succeeded(r) => rq[r].result.body.venture_data = None

C8_Witness ==
    \E r \in Reqs :
        /\ Succeeded(r)
        /\ rq[r].extracted_data # EmptyDict
        /\ rq[r].extracted_data.intent = "meeting_scheduling"
        /\ rq[r].snap.ventures # << >>
        /\ ventures = rq[r].snap.ventures

\* C9: when analyze_venture or the Venture upsert raises, the request still
\* succeeds, carrying the assistant reply, with venture_data null and both
\* messages persisted (a failing commit of the session aside).
C9_VentureFailureStillSucceeds ==
    \A r \in Reqs :
        (Done(r) /\ rq[r].venture_exc # None /\ rq[r].exc # DBError("commit")) =>
            /\ rq[r].result.status = 200
            /\ rq[r].result.body.response = rq[r].ai_response
            /\ rq[r].result.body.venture_data = None
            /\ messages = rq[r].snap.messages \o NewMessagesOf(r)

\* C10: when creating the Meeting row fails, the request still succeeds,
\* carrying the assistant reply.
C10_MeetingFailureStillSucceeds ==
    \A r \in Reqs :
        (Done(r) /\ rq[r].exc = DBError("create_meeting_request")) =>
            /\ rq[r].result.status = 200
            /\ rq[r].result.body.response = rq[r].ai_response

(***************************************************************************)
(* Properties of analyze_venture and detect_meeting_request                *)
(***************************************************************************)
\* the text holds a JSON object between its first "{" and its last "}"
ParseableObjectSpan(text) ==
    \E i, j \in DOMAIN text :
        /\ i < j
        /\ text[i] = "{" /\ \A k \in 1..(i - 1) : text[k] # "{"
        /\ text[j] = "}" /\ \A k \in (j + 1)..Len(text) : text[k] # "}"
        /\ \A k \in (i + 1)..(j - 1) : text[k] \in FieldTokens

\* no member of the text has this key
Omits(text, key) ==
    \A i \in DOMAIN text : text[i] \in FieldTokens => FieldKey(text[i]) # key

\* the call got no model reply with a parseable object: the model failed, the
\* prompt could not be built, or the reply holds no such span
NoParseableReply(c) ==
    \/ c.o.kind # "text"
    \/ _build_system_prompt_raises(c.user_context)
    \/ ~ParseableObjectSpan(c.o.text)

CalledAnalyzeVenture == call.fn = "analyze_venture" /\ ret # NoCall

\* C11: analyze_venture never raises, and for a model failure or a reply with
\* no parseable JSON object between its first "{" and last "}" it returns the
\* default analysis: name "Healthcare Venture", stage "idea", score 50,
\* concerns ["Incomplete information"], next_steps ["Continue conversation"],
\* empty breakdown and strengths.
C11_AnalyzeVentureDefault ==
    CalledAnalyzeVenture =>
        /\ ~ret.res.raised
        /\ NoParseableReply(call) =>
              /\ ret.res.value.name = "Healthcare Venture"
              /\ ret.res.value.stage = "idea"
              /\ ret.res.value.score = JInt(50)
              /\ ret.res.value.concerns = <<"Incomplete information">>
              /\ ret.res.value.next_steps = <<"Continue conversation">>
              /\ ret.res.value.score_breakdown = EmptyDict
              /\ ret.res.value.key_strengths = << >>

C11_Witness ==
    /\ CalledAnalyzeVenture
    /\ call.o.kind = "text"
    /\ ~_build_system_prompt_raises(call.user_context)
    /\ call.o.text = <<"{", "hello", "}">>
    /\ ret.res.value.concerns = <<"Incomplete information">>

\* C12: when the reply holds a parseable JSON object that omits a field, the
\* field takes the named default: name "Healthcare Venture", stage "idea",
\* score 50, concerns ["Incomplete information"].
C12_OmittedFieldsTakeNamedDefaults ==
    (CalledAnalyzeVenture /\ ~NoParseableReply(call)) =>
        /\ Omits(call.o.text, "name") => ret.res.value.name = "Healthcare Venture"
        /\ Omits(call.o.text, "stage") => ret.res.value.stage = "idea"
        /\ Omits(call.o.text, "score") => ret.res.value.score = JInt(50)
        /\ Omits(call.o.text, "concerns") =>
              ret.res.value.concerns = <<"Incomplete information">>

CalledDetectMeetingRequest == call.fn = "detect_meeting_request" /\ ret # NoCall

\* C13: detect_meeting_request never raises, and for a model failure or a
\* reply with no parseable JSON object between its first "{" and last "}" it
\* returns requested false, urgency "low", no preferred times, meeting type
\* "discovery", duration 30 and no agenda items.
C13_DetectMeetingDefault ==
    CalledDetectMeetingRequest =>
        /\ ~ret.res.raised
        /\ NoParseableReply(call) =>
              ret.res.value =
                  [requested |-> JFalse, urgency |-> "low", preferred_times |-> << >>,
                   meeting_type |-> "discovery", duration |-> 30,
                   agenda_items |-> << >>]

C13_Witness ==
    /\ CalledDetectMeetingRequest
    /\ call.o.kind = "text"
    /\ call.o.text = <<"}", "requested:true", "{">>
    /\ ret.res.value.requested = JFalse
    /\ ret.res.value.urgency = "low"

(***************************************************************************)
(* Properties of the keyword extraction                                    *)
(***************************************************************************)
\* the reply mentions the keyword "schedule", in any letter case
MentionsSchedule(text) ==
    \E i \in DOMAIN text : text[i] \in {"schedule", "Schedule"}

\* the reply mentions one of the venture keywords
MentionsVentureKeyword(text) ==
    \E i \in DOMAIN text : text[i] \in {"marketing"}

\* generate_response got a reply from the model and it mentions "schedule"
RepliedWithSchedule ==
    /\ CalledGenerateResponse
    /\ ~FailureInTry(call)
    /\ MentionsSchedule(call.o.text)

\* C14 as stated: for every reply that contains the keyword "schedule",
\* whatever else it contains, the extraction map has meeting_request true and
\* intent "meeting_scheduling".
C14_AsStated ==
    RepliedWithSchedule =>
        /\ ret.res.value.extracted.meeting_request = TRUE
        /\ ret.res.value.extracted.intent = "meeting_scheduling"

\* C14 amended: for every reply that contains the keyword "schedule" the
\* extraction map has meeting_request true; its intent is "meeting_scheduling"
\* when the reply holds no venture keyword and "venture_discussion" when it
\* holds one.
C14_ScheduleSetsMeetingRequest ==
    RepliedWithSchedule =>
        /\ ret.res.value.extracted.meeting_request = TRUE
        /\ ret.res.value.extracted.intent =
              IF MentionsVentureKeyword(call.o.text)
              THEN "venture_discussion" ELSE "meeting_scheduling"

C14_Witness ==
    /\ RepliedWithSchedule
    /\ "Schedule" \in {call.o.text[i] : i \in DOMAIN call.o.text}
    /\ ~MentionsVentureKeyword(call.o.text)
    /\ ret.res.value.extracted.intent = "meeting_scheduling"
    /\ ret.res.value.extracted.meeting_request = TRUE

(***************************************************************************)
(* Properties of the conversation a chat request resolves                  *)
(***************************************************************************)
ConversationIds(table) == {table[i].id : i \in DOMAIN table}

\* request r is past the resolution of its conversation, inside the handler
Resolved(r) ==
    rq[r].pc \in {"history", "generate", "save_user", "save_ai", "detect",
                  "venture", "meeting", "returned"}

\* C15: a request sent without conversation_id creates exactly one new
\* Conversation, owned by the caller and with a fresh id, which is stored when
\* the request succeeds, so that two such requests of one user yield two
\* distinct Conversations; a request sent with a conversation_id creates none.
C15_OneConversationPerNewChat ==
    /\ \A i, j \in DOMAIN conversations :
          conversations[i].id = conversations[j].id => i = j
    /\ \A r \in Reqs :
          /\ (Resolved(r) /\ rq[r].cid = None) =>
                /\ rq[r].tx.conversations = << rq[r].conversation >>
                /\ rq[r].conversation.user_id = rq[r].caller
                /\ rq[r].conversation.id \notin ConversationIds(conversations)
          /\ (Succeeded(r) /\ rq[r].cid = None) =>
                /\ conversations = rq[r].snap.conversations \o << rq[r].conversation >>
                /\ rq[r].conversation.user_id = rq[r].caller
                /\ rq[r].result.body.conversation_id = rq[r].conversation.id
          /\ (rq[r].pc # "idle" /\ rq[r].cid # None) =>
                /\ rq[r].tx.conversations = << >>
                /\ Done(r) => conversations = rq[r].snap.conversations

C15_Witness ==
    /\ Len(conversations) = 4
    /\ conversations[3].user_id = "u1"
    /\ conversations[4].user_id = "u1"
    /\ conversations[3].id # conversations[4].id
    /\ Succeeded("r1")
    /\ rq["r1"].cid = None

(***************************************************************************)
(* Properties of the tokens and the gates                                  *)
(***************************************************************************)
\* the call ended in HTTP 401
Rejected401(res) == res.raised /\ res.value.t = "HTTPException" /\ res.value.n = 401

\* C16: get_current_user answers 401 to every token whose type claim is not
\* "user", get_current_admin_user answers 401 to every token whose type claim
\* is not "admin", validly signed ones included; so no handler of an
\* admin-gated route runs for a user-typed token and no handler of a
\* user-gated route runs for an admin-typed token.
C16_TokenTypeSeparation ==
    /\ (ret.fn = "get_current_user" /\ call.token.type # "user") =>
          Rejected401(ret.res)
    /\ (ret.fn = "get_current_admin_user" /\ call.token.type # "admin") =>
          Rejected401(ret.res)
    /\ (ret.fn = "request" /\ call.route.gate \in {"user", "admin"}
          /\ call.token.type # call.route.gate) =>
          /\ ret.res.raised
          /\ ret.handler = "none"

C16_Witness ==
    /\ ret.fn = "get_current_user"
    /\ call.token = Token("a1", "admin", TRUE)
    /\ ~call.expired
    /\ call.token \in tokens
    /\ ret.res = Raised(AuthenticationError("Invalid token type for user access"))

\* the refresh call presented an unexpired refresh token issued for an existing
\* user or admin, and the lookup did not fail
RefreshedWithIssuedToken ==
    /\ ret.fn = "refresh_access_token"
    /\ call.token \in tokens
    /\ call.token.type = "refresh"
    /\ ~call.expired
    /\ ~call.fault
    /\ call.token.sub \in UserIds \cup AdminIds

\* C17: refreshing with a valid, unexpired refresh token issued at login for an
\* existing user or admin succeeds and returns an access token with the same
\* subject id and with type "user" or "admin" according to the principal's
\* kind, as in the access token issued at login.
C17_RefreshKeepsPrincipal ==
    RefreshedWithIssuedToken =>
        /\ ret.res.status = 200
        /\ ret.res.body.access_token.sub = call.token.sub
        /\ ret.res.body.access_token.type =
              IF call.token.sub \in AdminIds THEN "admin" ELSE "user"

\* C19: a POST to /api/v1/widget/chat without an Authorization header is passed
\* by AuthMiddleware.dispatch to the widget_chat handler.
C19_WidgetChatIsPublic ==
    (ret.fn = "request"
       /\ call.route.path = <<"api", "v1", "widget", "chat">>
       /\ call.token = NoAuthorization) =>
        /\ ~ret.res.raised
        /\ ret.handler = "widget_chat"

(***************************************************************************)
(* Properties of check_admin_permissions                                   *)
(***************************************************************************)
CalledCheckAdminPermissions == call.fn = "check_admin_permissions" /\ ret # NoCall

\* C18: for an admin whose permission list contains "super_admin",
\* check_admin_permissions is true for every list of required permissions,
\* whichever granular permissions the admin lists.
C18_SuperAdminPassesAll ==
    (CalledCheckAdminPermissions
       /\ \E i \in DOMAIN call.permissions : call.permissions[i] = "super_admin") =>
        ret.res = TRUE

C18_Witness ==
    /\ CalledCheckAdminPermissions
    /\ call.permissions = <<"view_conversations", "super_admin">>
    /\ call.required_permissions = <<"manage_users", "manage_users">>
    /\ ret.res = TRUE

(***************************************************************************)
(* Properties of upload_document                                           *)
(***************************************************************************)
\* the upload request of slot r is over
Uploaded(r) == rq[r].pc = "done" /\ rq[r].filename # ""

\* the upload's extension is outside the allow-list
ExtensionRefused(r) == FileExtension(rq[r].filename) \notin settings.ALLOWED_FILE_TYPES

\* the upload's size exceeds the configured byte ceiling
OverCeiling(r) == rq[r].size # None /\ rq[r].size.n > max_file_size_bytes

\* C20: an upload whose extension is outside the allow-list or whose size
\* exceeds the byte ceiling (10 MB by default) ends in an error, save_document
\* is not called and no Document row is created.
C20_BadUploadRejected ==
    \A r \in Reqs :
        (Uploaded(r) /\ rq[r].exc.t # "AuthenticationError"
            /\ (ExtensionRefused(r) \/ OverCeiling(r))) =>
            /\ rq[r].result.status >= 400
            /\ ~rq[r].save_called
            /\ rq[r].document = None
            /\ \A i \in DOMAIN documents :
                  ~(documents[i].original_filename = rq[r].filename
                      /\ documents[i].file_size = rq[r].size.n
                      /\ documents[i].user_id = rq[r].user_id)

(***************************************************************************)
(* Properties of the request-scoped session                                *)
(***************************************************************************)
\* the calls get_db_session itself made on the session of request r
OwnSessionOps(r) ==
    LET own(o) == o.by = "get_db_session" IN SelectSeq(rq[r].session, own)

\* how often a method of the session completed, among the calls in ops
Completed(ops, op) ==
    Cardinality({i \in DOMAIN ops : ops[i].op = op /\ ops[i].ok})

\* C21: get_db_session finishes the session of each request on every path:
\* when the body completes without raising, it commits and then closes; when
\* the body or the commit raises, it rolls back, closes, and the exception
\* is re-raised (the client gets an error, or, after a failed commit, may
\* already hold the handler's response); it closes exactly once, as its last
\* call, and its commit and its rollback never both complete for one request.
C21_SessionFinishedOnEveryPath ==
    \A r \in Reqs :
        Done(r) =>
            LET ops == OwnSessionOps(r)
                commit_ok == SessionOp("commit", "get_db_session", TRUE)
                commit_failed == SessionOp("commit", "get_db_session", FALSE)
                rollback == SessionOp("rollback", "get_db_session", TRUE)
                close == SessionOp("close", "get_db_session", TRUE)
            IN /\ Completed(ops, "close") = 1
               /\ ops[Len(ops)] = close
               /\ Completed(ops, "commit") + Completed(ops, "rollback") = 1
               /\ IF rq[r].exc = None
                  THEN ops = <<commit_ok, close>> /\ rq[r].result.status = 200
                  ELSE IF rq[r].exc = DBError("commit")
                  THEN ops = <<commit_failed, rollback, close>>
                       /\ \/ rq[r].result = global_exception_handler(DBError("commit"))
                          \/ rq[r].result.status = 200
                  ELSE ops = <<rollback, close>> /\ rq[r].result.status >= 400

\* a request whose handler returned and whose commit raised has been finished
C21_Witness ==
    \E r \in Reqs :
        /\ Done(r)
        /\ rq[r].exc = DBError("commit")
        /\ rq[r].ai_message # None
        /\ Len(OwnSessionOps(r)) = 3

\* the durable database state: the committed tables and timestamp columns
Durable ==
    [conversations |-> conversations, messages |-> messages, ventures |-> ventures,
     meetings |-> meetings, last_active |-> last_active]

\* request r passed get_current_user and ended in a server error
FailedAfterAuthentication(r) ==
    /\ Done(r)
    /\ rq[r].result.status >= 500
    /\ Len(rq[r].session) > 0
    /\ rq[r].session[1] = SessionOp("commit", "get_current_user", TRUE)

\* C22: when an authenticated request ends in an unhandled or server error,
\* the durable database state after the request equals the state before it.
C22_FailedRequestLeavesNoTrace ==
    \A r \in SeqReqs :
        FailedAfterAuthentication(r) => Durable = rq[r].snap

(***************************************************************************)
(* Properties of the Venture rows and of the order of the side effects     *)
(***************************************************************************)
\* C23: after any sequence of chat requests every Venture row that has a
\* score has a score in [1,100], whatever JSON the model returned to
\* analyze_venture.
C23_VentureScoreInRange ==
    \A i \in DOMAIN ventures :
        ventures[i].score # None => ventures[i].score.n \in 1..100

\* the position of the first occurrence of step in the step log, 0 when absent
StepIndex(log, step) ==
    IF \E i \in DOMAIN log : log[i] = step
    THEN CHOOSE i \in DOMAIN log : log[i] = step /\ \A j \in 1..(i - 1) : log[j] # step
    ELSE 0

\* C25: in every request that both creates a Meeting row and invokes
\* analyze_venture, the Meeting row is created before analyze_venture is
\* invoked, and both happen after both messages were persisted.
C25_MeetingBeforeVenture ==
    \A r \in SeqReqs :
        LET log == rq[r].steps IN
        (StepIndex(log, "create_meeting_request") > 0
            /\ StepIndex(log, "analyze_venture") > 0) =>
            /\ StepIndex(log, "create_meeting_request") < StepIndex(log, "analyze_venture")
            /\ StepIndex(log, "create_message user") > 0
            /\ StepIndex(log, "create_message assistant") > 0
            /\ StepIndex(log, "create_message assistant")
                   < StepIndex(log, "create_meeting_request")
            /\ StepIndex(log, "create_message assistant") < StepIndex(log, "analyze_venture")

(***************************************************************************)
(* Properties of the account endpoints                                     *)
(***************************************************************************)
EmailsUnique ==
    \A i, j \in DOMAIN users : users[i].email = users[j].email => i = j

FinishedAccountRequest(r, kind) == Done(r) /\ rq[r].kind = kind

\* C24 as stated: no two User rows share an email, and a register_user
\* request for an email that belonged to a user when the request arrived is
\* rejected with status 400, adds no user and issues no tokens.
C24_AsStated ==
    /\ EmailsUnique
    /\ \A r \in Reqs :
          (FinishedAccountRequest(r, "register_user") /\ rq[r].taken) =>
              /\ rq[r].result.status = 400
              /\ rq[r].created = ""
              /\ rq[r].issued = {}

\* C24 amended: no two User rows share an email.  A register_user request
\* for an email that belonged to a user when the request arrived is rejected
\* with status 400, or with status 500 when its lookup raised; a request
\* whose email was registered between its lookup and its commit is rejected
\* with status 500 by the unique index.  A rejected request adds no user and
\* issues no tokens; a request adds a user only for an email that nobody holds
\* at its commit, and tokens are issued only with the 200 of its handler.
C24_DuplicateEmailRejected ==
    /\ EmailsUnique
    /\ \A r \in Reqs :
          FinishedAccountRequest(r, "register_user") =>
              /\ rq[r].taken =>
                    /\ rq[r].result.status = IF rq[r].lookup_raised THEN 500 ELSE 400
                    /\ rq[r].created = ""
                    /\ rq[r].issued = {}
              /\ rq[r].exc = DBError("IntegrityError users.email") =>
                    /\ rq[r].result.status = 500
                    /\ rq[r].created = ""
                    /\ rq[r].issued = {}
              /\ rq[r].created # "" =>
                    /\ ~rq[r].taken
                    /\ \E i \in DOMAIN users :
                          users[i].id = rq[r].created /\ users[i].email = rq[r].email
              /\ rq[r].issued # {} =>
                    /\ rq[r].created # "" /\ rq[r].exc = None
                    /\ rq[r].teardown = None => rq[r].result.status = 200
              /\ rq[r].issued \subseteq tokens

\* a user registered during the run, and a later request for the same email
\* was answered 400
C24_Witness ==
    \E r \in Reqs :
        /\ FinishedAccountRequest(r, "register_user")
        /\ rq[r].taken
        /\ rq[r].email = "cat@example.org"
        /\ rq[r].result.status = 400
        /\ Len(users) = 3

\* C28: at most one User row carries a given session_id in its metadata, and
\* every get_or_create_widget_user request with a session_id that already had
\* a user when it arrived returns that user's id and creates no User (lookups
\* and session commits that fail in the database aside).
C28_OneWidgetUserPerSession ==
    /\ \A session_id \in SessionIds : Len(RowsOfSession(users, session_id)) <= 1
    /\ \A r \in Reqs :
          (FinishedAccountRequest(r, "get_or_create_widget_user")
              /\ rq[r].taken /\ rq[r].exc # DBError("select")
              /\ rq[r].teardown = None) =>
              /\ rq[r].result.status = 200
              /\ rq[r].created = ""
              /\ rq[r].result.body.id = RowsOfSession(users, rq[r].session_id)[1].id

\* the ids of the users with this email
IdsOfEmail(email) == {users[i].id : i \in {j \in DOMAIN users : users[j].email = email}}

\* the handler of request r is over: it returned or raised
HandlerOver(r, kind) == rq[r].kind = kind /\ rq[r].pc \in {"returned", "raised", "done"}

\* C29: request_password_reset returns the same status and message whether
\* or not a User with the submitted email exists, also when the lookup or
\* the storing of the reset token fails (it never raises; a failing commit
\* of get_db_session after it returned aside); when the email belongs to a
\* user and nothing fails, a reset token and its expiry are stored in that
\* user's metadata; they are stored only then, and no other user is modified.
C29_ResetTokenStoredUniformly ==
    \A r \in Reqs :
        HandlerOver(r, "request_password_reset") =>
            /\ rq[r].pc # "raised"
            /\ rq[r].teardown = None => rq[r].result = PasswordResetResponse
            /\ rq[r].wrote \subseteq IdsOfEmail(rq[r].email)
            /\ rq[r].existing = None => rq[r].wrote = {}
            /\ (rq[r].existing # None /\ rq[r].exc = None) =>
                  \E i \in DOMAIN users :
                      /\ users[i].id = rq[r].existing.id
                      /\ {"password_reset_token", "password_reset_expires"}
                             \subseteq DOMAIN users[i].metadata

(***************************************************************************)
(* Properties of check_admin_permissions without the sentinel              *)
(***************************************************************************)
\* C30: for an admin whose permission list lacks "super_admin",
\* check_admin_permissions returns true if and only if every required
\* permission is in the admin's permission list, also when the required list
\* or the admin's list is empty.
C30_SupersetRule ==
    (CalledCheckAdminPermissions /\ "super_admin" \notin Elems(call.permissions)) =>
        (ret.res <=> Elems(call.required_permissions) \subseteq Elems(call.permissions))

(***************************************************************************)
(* Properties of a request that carries a login's access token             *)
(***************************************************************************)
\* the last HTTP request was to a user-gated route and carried, unexpired,
\* the access token a login returned for an existing user
PresentedLoginAccessToken ==
    /\ call.fn = "request"
    /\ ret.fn = "request"
    /\ call.route.gate = "user"
    /\ call.token \in tokens
    /\ call.token.type = "user"
    /\ call.token.sub \in UserIds
    /\ ~call.expired

\* C27: a request to a user-gated route with the unexpired access token that
\* login_user returned for an existing user passes AuthMiddleware.dispatch and
\* get_current_user and reaches the route handler as that user (a database
\* failure during get_current_user aside).
C27_LoginTokenReachesHandler ==
    (PresentedLoginAccessToken /\ call.fault = "none") =>
        /\ ~ret.res.raised
        /\ ret.handler = call.route.handler
        /\ ret.res.value.id = call.token.sub

(***************************************************************************)
(* Properties of two chat requests in flight at the same time              *)
(***************************************************************************)
\* both requests were by the same user for the same stored conversation, and
\* both succeeded
BothSucceeded ==
    /\ Succeeded("r1")
    /\ Succeeded("r2")
    /\ rq["r1"].caller = rq["r2"].caller
    /\ rq["r1"].cid = rq["r2"].cid
    /\ rq["r1"].conversation.id = rq["r2"].conversation.id

\* the ids of the messages stored before either request arrived
IdsBeforeBoth ==
    {m.id : m \in Elems(rq["r1"].snap.messages)} \cap
    {m.id : m \in Elems(rq["r2"].snap.messages)}

\* the positions in the messages table of the conversation's new rows
NewPositions ==
    {i \in DOMAIN messages :
        /\ messages[i].conversation_id = rq["r1"].conversation.id
        /\ messages[i].id \notin IdsBeforeBoth}

\* the message row is stored exactly once, as it was created
StoredOnce(m) ==
    Cardinality({i \in DOMAIN messages : messages[i].id = m.id}) = 1
    /\ \E i \in DOMAIN messages : messages[i] = m

\* the position of the row with this id
PositionOf(id) == CHOOSE i \in DOMAIN messages : messages[i].id = id

\* C26: when two concurrent chat requests by the same user for the same
\* existing conversation both succeed, the conversation holds exactly four new
\* messages, the two user messages and the two assistant messages, each stored
\* once and unchanged, and each request's user message was created before its
\* own assistant message.
C26_FourNewMessages ==
    BothSucceeded =>
        LET four == <<rq["r1"].user_message, rq["r1"].ai_message,
                      rq["r2"].user_message, rq["r2"].ai_message>> IN
        /\ Cardinality(NewPositions) = 4
        /\ Cardinality({four[k].id : k \in 1..4}) = 4
        /\ \A k \in 1..4 : StoredOnce(four[k])
        /\ {messages[i] : i \in NewPositions} = {four[k] : k \in 1..4}
        /\ \A r \in Reqs :
              /\ rq[r].user_message.role = "user"
              /\ rq[r].ai_message.role = "assistant"
              /\ rq[r].user_message.id < rq[r].ai_message.id
              /\ PositionOf(rq[r].user_message.id) < PositionOf(rq[r].ai_message.id)

\* both succeeded and their messages interleaved: the second request's user
\* message was created between the first request's two messages
C26_Witness ==
    /\ BothSucceeded
    /\ rq["r1"].user_message.id < rq["r2"].user_message.id
    /\ rq["r2"].user_message.id < rq["r1"].ai_message.id
    /\ rq["r1"].ai_message.id < rq["r2"].ai_message.id

====
